---- MODULE Spec2Model ----
(***************************************************************************)
(* qcrbox_cmd_tester: the expected-result model (models/expected_values),  *)
(* the CIF document accessor (io_adapters) and the verification engine     *)
(* (test_implementations), and the orchestration of test cases and test    *)
(* suites (run_suite).                                                     *)
(*                                                                         *)
(* Texts are sequences of one-character strings, so that str(), strip(),   *)
(* float() and the substring test are computed character by character.     *)
(* Numbers of the specification language are fixed-point: an integer n     *)
(* stands for the Python number n/10 (one fractional digit).               *)
(***************************************************************************)
EXTENDS Integers, Sequences, FiniteSets, TLC

\* Largest number of rows of the loop of a document.
MaxRows == 2
\* Largest number of row_lookup conditions of a loop specification.
MaxConds == 2
\* Largest number of expected results of a test case.
MaxResults == 2
\* Largest number of test cases of a test suite.
MaxCases == 2
\* calls of check_result made on a document after the first
MaxEvaluations == 2
\* parameters of a command
MaxParams == 2

(***************************************************************************)
(* Python values: str | int | float | bool, and the list PyCifRW returns   *)
(* for a loop column.  One record shape for all of them.                   *)
(***************************************************************************)
StrV(s) == [t |-> "str", s |-> s, n |-> 0, l |-> <<>>]
IntV(n) == [t |-> "int", s |-> <<>>, n |-> n, l |-> <<>>]
\* n is the float in tenths: FloatV(120) is 12.0, FloatV(15) is 1.5
FloatV(n) == [t |-> "float", s |-> <<>>, n |-> n, l |-> <<>>]
BoolV(b) == [t |-> "bool", s |-> <<>>, n |-> IF b THEN 1 ELSE 0, l |-> <<>>]
\* l is a sequence of texts
ListV(l) == [t |-> "list", s |-> <<>>, n |-> 0, l |-> l]
NoneV == [t |-> "None", s |-> <<>>, n |-> 0, l |-> <<>>]

DigitChars == <<"0", "1", "2", "3", "4", "5", "6", "7", "8", "9">>
Digits == {DigitChars[i] : i \in 1..10}
DigitValue(c) == (CHOOSE i \in 1..10 : DigitChars[i] = c) - 1
Whitespace == {" "}

RECURSIVE NatStr(_)
\* decimal digits of a natural number
NatStr(n) ==
    IF n < 10 THEN <<DigitChars[n + 1]>>
    ELSE NatStr(n \div 10) \o <<DigitChars[(n % 10) + 1]>>

\* str(int)
IntStr(n) == IF n < 0 THEN <<"-">> \o NatStr(-n) ELSE NatStr(n)

\* str(float) of the float n/10: the shortest repr, always with one
\* fractional digit for a multiple of 0.1 ("12.0", "1.5", "-0.5")
FloatStr(n) ==
    LET a == IF n < 0 THEN -n ELSE n
    IN  (IF n < 0 THEN <<"-">> ELSE <<>>)
        \o NatStr(a \div 10) \o <<".">> \o <<DigitChars[(a % 10) + 1]>>

RECURSIVE JoinTexts(_, _)
\* sep.join(texts)
JoinTexts(texts, sep) ==
    IF texts = <<>> THEN <<>>
    ELSE IF Len(texts) = 1 THEN texts[1]
    ELSE texts[1] \o sep \o JoinTexts(Tail(texts), sep)

\* repr() of a str without quotes, backslashes or control characters
ReprText(s) == <<"'">> \o s \o <<"'">>

\* str(value), as the f-strings and the comparisons of the engine apply it
Str(v) ==
    CASE v.t = "str" -> v.s
      [] v.t = "int" -> IntStr(v.n)
      [] v.t = "float" -> FloatStr(v.n)
      [] v.t = "bool" -> IF v.n = 1 THEN <<"T", "r", "u", "e">>
                         ELSE <<"F", "a", "l", "s", "e">>
      [] v.t = "list" ->
            <<"[">> \o JoinTexts([i \in 1..Len(v.l) |-> ReprText(v.l[i])], <<",", " ">>) \o <<"]">>
      [] OTHER -> <<"N", "o", "n", "e">>

RECURSIVE LStrip(_)
LStrip(s) == IF s # <<>> /\ Head(s) \in Whitespace THEN LStrip(Tail(s)) ELSE s

RECURSIVE RStrip(_)
RStrip(s) ==
    IF s # <<>> /\ s[Len(s)] \in Whitespace THEN RStrip(SubSeq(s, 1, Len(s) - 1)) ELSE s

\* str.strip()
strip(s) == RStrip(LStrip(s))

\* `sub in s` for two str
Contains(s, sub) ==
    \E i \in 0..(Len(s) - Len(sub)) : SubSeq(s, i + 1, i + Len(sub)) = sub

RECURSIVE DigitsNat(_)
\* the natural number a sequence of digits, with the point removed, denotes
DigitsNat(ds) ==
    IF ds = <<>> THEN 0
    ELSE DigitsNat(SubSeq(ds, 1, Len(ds) - 1)) * 10 + DigitValue(ds[Len(ds)])

RECURSIVE Pow10(_)
Pow10(k) == IF k = 0 THEN 1 ELSE 10 * Pow10(k - 1)

SelectDigits(s) == SelectSeq(s, LAMBDA c : c \in Digits)

(***************************************************************************)
(* float(value).  For a str: surrounding whitespace is ignored, then an    *)
(* optional sign, then digits with at most one point and at least one      *)
(* digit.  The texts of the model hold no exponent, underscore, "inf" or   *)
(* "nan".  The number is num/den.  A list raises TypeError, which the      *)
(* callers catch with ValueError.                                          *)
(***************************************************************************)
ParseFloat(v) ==
    IF v.t # "str" THEN [ok |-> FALSE, num |-> 0, den |-> 1]
    ELSE
    LET t == strip(v.s)
        signed == t # <<>> /\ Head(t) \in {"+", "-"}
        body == IF signed THEN Tail(t) ELSE t
        points == {i \in 1..Len(body) : body[i] = "."}
        ds == SelectDigits(body)
        valid == /\ \A i \in 1..Len(body) : body[i] \in Digits \cup {"."}
                 /\ Cardinality(points) <= 1
                 /\ ds # <<>>
        frac == IF points = {} THEN 0 ELSE Len(body) - (CHOOSE i \in points : TRUE)
        mag == DigitsNat(ds)
    IN  IF valid
        THEN [ok |-> TRUE,
              num |-> IF signed /\ Head(t) = "-" THEN -mag ELSE mag,
              den |-> Pow10(frac)]
        ELSE [ok |-> FALSE, num |-> 0, den |-> 1]

\* InRange with the upper bound exclusive
InRangeExclusive(min_value, f, max_value) ==
    /\ min_value * f.den <= f.num * 10
    /\ f.num * 10 < max_value * f.den

\* min_value <= actual_float <= max_value, the bounds in tenths
InRange(min_value, f, max_value) ==
    /\ min_value * f.den <= f.num * 10
    /\ f.num * 10 <= max_value * f.den

RECURSIVE StripZeros(_)
StripZeros(ds) ==
    IF Len(ds) > 1 /\ ds[Len(ds)] = "0" THEN StripZeros(SubSeq(ds, 1, Len(ds) - 1)) ELSE ds

RECURSIVE PadZeros(_, _)
PadZeros(ds, k) == IF Len(ds) >= k THEN ds ELSE PadZeros(<<"0">> \o ds, k)

\* str(actual_float) of a parsed decimal num/den
ParsedStr(f) ==
    LET a == IF f.num < 0 THEN -f.num ELSE f.num
        k == Len(NatStr(f.den)) - 1
        fr == IF k = 0 THEN <<"0">> ELSE StripZeros(PadZeros(NatStr(a % f.den), k))
    IN  (IF f.num < 0 THEN <<"-">> ELSE <<>>) \o NatStr(a \div f.den) \o <<".">> \o fr

(***************************************************************************)
(* Messages.  A message (an exception's text, a verdict's log) is the      *)
(* sequence of the parts its f-string is built of: literal fragments and   *)
(* interpolated texts.  The marks U+2717 and U+2713 that open a log are    *)
(* written "[fail] " and "[pass] ".                                        *)
(***************************************************************************)
L(s) == [lit |-> s, txt |-> <<>>]
V(t) == [lit |-> "", txt |-> t]

\* `fragment in log`, for a literal fragment of the format strings
Mentions(log, fragment) == \E i \in 1..Len(log) : log[i] = L(fragment)
\* the log reports the text
Reports(log, text) == \E i \in 1..Len(log) : log[i] = V(text)

(***************************************************************************)
(* The parsed document: PyCIFRWAdapter.block, the first block of the CIF   *)
(* text.  entries maps each data name of the block to its value (a str     *)
(* for a scalar item, the list of the column's str for a looped item);     *)
(* loop_keys are the data names of the block's loop.                       *)
(***************************************************************************)
Block(scalar, rows) ==
    [entries |-> [k \in {"_cif.entry", "_loop.index", "_loop.value"} |->
                    CASE k = "_cif.entry" -> StrV(scalar)
                      [] k = "_loop.index" -> ListV([i \in 1..Len(rows) |-> rows[i].index])
                      [] k = "_loop.value" -> ListV([i \in 1..Len(rows) |-> rows[i].value])],
     loop_keys |-> {"_loop.index", "_loop.value"}]

\* the adapter before a document is parsed
NoBlock == [entries |-> [k \in {} |-> NoneV], loop_keys |-> {}]

(***************************************************************************)
(* The CIF text handed to the adapter.  ReadCif is PyCifRW's: a well-      *)
(* formed text is written by the first block it describes; the empty text  *)
(* and a text that is no CIF are the two texts it cannot read.             *)
(***************************************************************************)
CifText(block) == [kind |-> "cif", block |-> block]
\* ""
EmptyText == [kind |-> "empty", block |-> NoBlock]
\* "This is not valid CIF format"
MalformedText == [kind |-> "malformed", block |-> NoBlock]

\* PyCIFRWAdapter(cif_text): ReadCif(StringIO(cif_text)).first_block(); the
\* empty text ends in AttributeError, a malformed one in PyCifRW's StarError
PyCIFRWAdapter(cif_text) ==
    CASE cif_text.kind = "cif" -> [kind |-> "return", block |-> cif_text.block, exc |-> ""]
      [] cif_text.kind = "empty" -> [kind |-> "raise", block |-> NoBlock, exc |-> "AttributeError"]
      [] OTHER -> [kind |-> "raise", block |-> NoBlock, exc |-> "StarError"]

Return(value) == [kind |-> "return", value |-> value, exc |-> "", msg |-> <<>>]
Raise(exc, msg) == [kind |-> "raise", value |-> NoneV, exc |-> exc, msg |-> msg]

NotFoundMessage(entry_name) ==
    <<L("CIF entry '"), L(entry_name), L("' "), L("not found"), L(" in CIF block.")>>

get_entry_from_cif_block(block, entry_name) ==
    IF entry_name \notin DOMAIN block.entries
    THEN Raise("ValueMissingError", NotFoundMessage(entry_name))
    ELSE Return(block.entries[entry_name])

RECURSIVE LookupDesc(_)
\* " AND ".join(f"{name}={val}" for name, val in row_lookups)
LookupDesc(row_lookups) ==
    IF row_lookups = <<>> THEN <<>>
    ELSE <<L(row_lookups[1][1]), L("="), V(row_lookups[1][2])>>
         \o (IF Len(row_lookups) = 1 THEN <<>>
             ELSE <<L(" AND ")>> \o LookupDesc(Tail(row_lookups)))

\* set(idx for idx, val in enumerate(loop[key]) if val == test_val)
MatchingIndexes(block, key, test_val) ==
    LET column == block.entries[key].l
    IN  {idx \in 0..(Len(column) - 1) : column[idx + 1] = test_val}

\* IntersectAll with the conditions after the first one left out
IntersectAllFirstOnly(first, rest) == first

\* first.union(*rest)
UnionAll(first, rest) == first \cup UNION {rest[i] : i \in 1..Len(rest)}

RECURSIVE IntersectAll(_, _)
\* first.intersection(*rest)
IntersectAll(first, rest) ==
    IF rest = <<>> THEN first ELSE IntersectAll(first \cap Head(rest), Tail(rest))

\* indexes[0].intersection(*indexes[1:]) for the row lookups of the call
Overlap(block, row_lookups) ==
    LET indexes == [i \in 1..Len(row_lookups) |->
                        MatchingIndexes(block, row_lookups[i][1], row_lookups[i][2])]
    IN  IntersectAll(indexes[1], Tail(indexes))

(***************************************************************************)
(* PyCIFRWAdapter.get_loop_entry_from_cif_block.  The two validations and  *)
(* GetLoop are written twice in the source, with the same outcome.         *)
(* GetLoop raises KeyError for a data name that is in no loop, and so does *)
(* loop[key].  With more than one matching row, " ".join(overlap) joins a  *)
(* set of int and raises TypeError before the ValueError is built.         *)
(***************************************************************************)
get_loop_entry_from_cif_block(block, entry_name, row_lookups) ==
    LET absent == {i \in 1..Len(row_lookups) : row_lookups[i][1] \notin DOMAIN block.entries}
        unlooped == {i \in 1..Len(row_lookups) : row_lookups[i][1] \notin block.loop_keys}
    IN  IF entry_name \notin DOMAIN block.entries
        THEN Raise("ValueMissingError", NotFoundMessage(entry_name))
        ELSE IF absent # {}
        THEN Raise("ValueMissingError",
                   NotFoundMessage(row_lookups[CHOOSE i \in absent : \A j \in absent : i <= j][1]))
        ELSE IF entry_name \notin block.loop_keys
        THEN Raise("KeyError", <<L(entry_name)>>)
        ELSE IF unlooped # {}
        THEN Raise("KeyError", <<L(row_lookups[CHOOSE i \in unlooped : \A j \in unlooped : i <= j][1])>>)
        ELSE IF row_lookups = <<>>
        THEN Raise("IndexError", <<L("list index out of range")>>)
        ELSE LET overlap == Overlap(block, row_lookups)
             IN  IF Cardinality(overlap) = 1
                 THEN Return(StrV(block.entries[entry_name].l[(CHOOSE idx \in overlap : TRUE) + 1]))
                 ELSE IF Cardinality(overlap) > 1
                 THEN Raise("TypeError", <<L("sequence item 0: expected str instance, int found")>>)
                 ELSE Raise("ValueError",
                            <<L("No row found matching conditions"), L(": ")>> \o LookupDesc(row_lookups))

(***************************************************************************)
(* The verification engine: IndividualTestResult and the twelve test       *)
(* functions.  A call either returns a verdict or lets an exception it     *)
(* does not catch escape (kind "raised").                                  *)
(***************************************************************************)
\* IndividualTestResult with an empty log
VerdictWithoutLog(name, passed, log) ==
    [kind |-> "verdict", test_case_name |-> name, passed |-> passed, log |-> <<>>, exc |-> ""]

Verdict(name, passed, log) ==
    [kind |-> "verdict", test_case_name |-> name, passed |-> passed, log |-> log, exc |-> ""]
Raised(exc) ==
    [kind |-> "raised", test_case_name |-> "", passed |-> FALSE, log |-> <<>>, exc |-> exc]

generate_test_case_name(test_type, entry_name) ==
    IF entry_name # "" THEN test_type \o "_" \o entry_name ELSE test_type \o "_test"

\* the except clause of the scalar test functions
EntryCaught == {"ValueMissingError"}
\* the except clause of the loop test functions
LoopCaught == {"ValueMissingError", "ValueError", "IndexError"}

\* ErrorVerdict with no except clause
ErrorVerdictReraise(name, r, caught) == Raised(r.exc)

\* except ... as e: passed=False, log=f"[fail] {str(e)}"
ErrorVerdict(name, r, caught) ==
    IF r.exc \in caught THEN Verdict(name, FALSE, <<L("[fail] ")>> \o r.msg) ELSE Raised(r.exc)

\* [(lookup.row_entry_name, str(lookup.row_entry_value)) for lookup in expected.row_lookup]
RowLookupTuples(expected) ==
    [i \in 1..Len(expected.row_lookup) |->
        <<expected.row_lookup[i].row_entry_name, Str(expected.row_lookup[i].row_entry_value)>>]

\* f"Entry '{expected.cif_entry_name}'"
EntryHead(mark, expected) == <<L(mark), L("Entry '"), L(expected.cif_entry_name), L("'")>>
\* f"Loop entry '{expected.cif_entry_name}' (where {lookup_desc})"
LoopHead(mark, expected) ==
    <<L(mark), L("Loop entry '"), L(expected.cif_entry_name), L("'"), L(" (where ")>>
    \o LookupDesc(RowLookupTuples(expected)) \o <<L(")")>>

\* test_cif_entry_match comparing the parsed numbers where both sides parse
test_cif_entry_match_numeric(block, expected) ==
    LET name == generate_test_case_name("match", expected.cif_entry_name)
        r == get_entry_from_cif_block(block, expected.cif_entry_name)
    IN  IF r.kind = "raise" THEN ErrorVerdict(name, r, EntryCaught)
        ELSE LET a == ParseFloat(r.value)
                 e == ParseFloat(StrV(Str(expected.expected_value)))
                 passed == IF a.ok /\ e.ok THEN a.num * e.den = e.num * a.den
                           ELSE strip(Str(r.value)) = strip(Str(expected.expected_value))
             IN  Verdict(name, passed, EntryHead(IF passed THEN "[pass] " ELSE "[fail] ", expected))

test_cif_entry_match(block, expected) ==
    LET name == generate_test_case_name("match", expected.cif_entry_name)
        r == get_entry_from_cif_block(block, expected.cif_entry_name)
    IN  IF r.kind = "raise" THEN ErrorVerdict(name, r, EntryCaught)
        ELSE LET actual_str == strip(Str(r.value))
                 expected_str == strip(Str(expected.expected_value))
                 passed == actual_str = expected_str
             IN  Verdict(name, passed,
                    IF passed
                    THEN EntryHead("[pass] ", expected)
                         \o <<L(" matches expected value '"), V(Str(expected.expected_value)), L("'")>>
                    ELSE EntryHead("[fail] ", expected)
                         \o <<L(": "), L("expected"), L(" '"), V(Str(expected.expected_value)),
                              L("', got '"), V(Str(r.value)), L("'")>>)

\* test_cif_entry_non_match comparing the texts as they are, without strip()
test_cif_entry_non_match_untrimmed(block, expected) ==
    LET name == generate_test_case_name("non_match", expected.cif_entry_name)
        r == get_entry_from_cif_block(block, expected.cif_entry_name)
    IN  IF r.kind = "raise" THEN ErrorVerdict(name, r, EntryCaught)
        ELSE LET passed == Str(r.value) # Str(expected.forbidden_value)
             IN  Verdict(name, passed, EntryHead(IF passed THEN "[pass] " ELSE "[fail] ", expected))

test_cif_entry_non_match(block, expected) ==
    LET name == generate_test_case_name("non_match", expected.cif_entry_name)
        r == get_entry_from_cif_block(block, expected.cif_entry_name)
    IN  IF r.kind = "raise" THEN ErrorVerdict(name, r, EntryCaught)
        ELSE LET actual_str == strip(Str(r.value))
                 forbidden_str == strip(Str(expected.forbidden_value))
                 passed == actual_str # forbidden_str
             IN  Verdict(name, passed,
                    IF passed
                    THEN EntryHead("[pass] ", expected)
                         \o <<L(" does not match forbidden value '"), V(Str(expected.forbidden_value)), L("'")>>
                    ELSE EntryHead("[fail] ", expected)
                         \o <<L(" has forbidden value '"), V(Str(expected.forbidden_value)), L("'")>>)

\* f"[{expected.min_value}, {expected.max_value}]"
RangeText(expected) ==
    <<L("["), V(FloatStr(expected.min_value)), L(", "), V(FloatStr(expected.max_value)), L("]")>>

test_cif_entry_within(block, expected) ==
    LET name == generate_test_case_name("within", expected.cif_entry_name)
        r == get_entry_from_cif_block(block, expected.cif_entry_name)
    IN  IF r.kind = "raise" THEN ErrorVerdict(name, r, EntryCaught)
        ELSE LET actual_float == ParseFloat(r.value)
             IN  IF ~actual_float.ok
                 THEN Verdict(name, FALSE,
                        EntryHead("[fail] ", expected)
                        \o <<L(" value '"), V(Str(r.value)), L("' is "), L("not a valid number")>>)
                 ELSE LET passed == InRange(expected.min_value, actual_float, expected.max_value)
                      IN  Verdict(name, passed,
                             EntryHead(IF passed THEN "[pass] " ELSE "[fail] ", expected)
                             \o <<L(" value "), V(ParsedStr(actual_float)), L(" is "),
                                  L(IF passed THEN "within" ELSE "outside"), L(" ")>>
                             \o RangeText(expected))

\* test_cif_entry_contain searching the trimmed text
test_cif_entry_contain_trimmed(block, expected) ==
    LET name == generate_test_case_name("contain", expected.cif_entry_name)
        r == get_entry_from_cif_block(block, expected.cif_entry_name)
    IN  IF r.kind = "raise" THEN ErrorVerdict(name, r, EntryCaught)
        ELSE LET passed == Contains(strip(Str(r.value)), expected.expected_value.s)
             IN  Verdict(name, passed, EntryHead(IF passed THEN "[pass] " ELSE "[fail] ", expected))

test_cif_entry_contain(block, expected) ==
    LET name == generate_test_case_name("contain", expected.cif_entry_name)
        r == get_entry_from_cif_block(block, expected.cif_entry_name)
    IN  IF r.kind = "raise" THEN ErrorVerdict(name, r, EntryCaught)
        ELSE LET actual_str == Str(r.value)
                 passed == Contains(actual_str, expected.expected_value.s)
             IN  Verdict(name, passed,
                    IF passed
                    THEN EntryHead("[pass] ", expected)
                         \o <<L(" contains '"), V(expected.expected_value.s), L("'")>>
                    ELSE EntryHead("[fail] ", expected)
                         \o <<L(" does not contain '"), V(expected.expected_value.s),
                              L("' (actual: '"), V(actual_str), L("')")>>)

test_cif_entry_missing(block, expected) ==
    LET name == generate_test_case_name("missing", expected.cif_entry_name)
        r == get_entry_from_cif_block(block, expected.cif_entry_name)
    IN  IF r.kind = "raise"
        THEN IF r.exc = "ValueMissingError"
             THEN Verdict(name, TRUE, EntryHead("[pass] ", expected) \o <<L(" is missing as expected")>>)
             ELSE Raised(r.exc)
        ELSE Verdict(name, FALSE,
                EntryHead("[fail] ", expected)
                \o <<L(" should be missing but was found with value '"), V(Str(r.value)), L("'")>>)

\* actual_str in ("?", ".")
IsUndefined(actual_str) == actual_str \in {<<"?">>, <<".">>}

test_cif_entry_present(block, expected) ==
    LET name == generate_test_case_name("present", expected.cif_entry_name)
        r == get_entry_from_cif_block(block, expected.cif_entry_name)
    IN  IF r.kind = "raise" THEN ErrorVerdict(name, r, EntryCaught)
        ELSE LET actual_str == strip(Str(r.value))
                 is_undefined == IsUndefined(actual_str)
             IN  IF is_undefined /\ ~expected.allow_unknown
                 THEN Verdict(name, FALSE,
                        EntryHead("[fail] ", expected)
                        \o <<L(" is present but has "), L("undefined"), L(" value '"), V(actual_str),
                             L("' (allow_unknown=False)")>>)
                 ELSE Verdict(name, TRUE,
                        EntryHead("[pass] ", expected)
                        \o <<L(" is present with value '"), V(Str(r.value)), L("'")>>)

test_cif_loop_entry_match(block, expected) ==
    LET name == generate_test_case_name("loop_match", expected.cif_entry_name)
        r == get_loop_entry_from_cif_block(block, expected.cif_entry_name, RowLookupTuples(expected))
    IN  IF r.kind = "raise" THEN ErrorVerdict(name, r, LoopCaught)
        ELSE LET actual_str == strip(Str(r.value))
                 expected_str == strip(Str(expected.expected_value))
                 passed == actual_str = expected_str
             IN  Verdict(name, passed,
                    IF passed
                    THEN LoopHead("[pass] ", expected)
                         \o <<L(" matches expected value '"), V(Str(expected.expected_value)), L("'")>>
                    ELSE LoopHead("[fail] ", expected)
                         \o <<L(": "), L("expected"), L(" '"), V(Str(expected.expected_value)),
                              L("', got '"), V(Str(r.value)), L("'")>>)

test_cif_loop_entry_non_match(block, expected) ==
    LET name == generate_test_case_name("loop_non_match", expected.cif_entry_name)
        r == get_loop_entry_from_cif_block(block, expected.cif_entry_name, RowLookupTuples(expected))
    IN  IF r.kind = "raise" THEN ErrorVerdict(name, r, LoopCaught)
        ELSE LET actual_str == strip(Str(r.value))
                 forbidden_str == strip(Str(expected.forbidden_value))
                 passed == actual_str # forbidden_str
             IN  Verdict(name, passed,
                    IF passed
                    THEN LoopHead("[pass] ", expected)
                         \o <<L(" does not match forbidden value '"), V(Str(expected.forbidden_value)), L("'")>>
                    ELSE LoopHead("[fail] ", expected)
                         \o <<L(" has forbidden value '"), V(Str(expected.forbidden_value)), L("'")>>)

test_cif_loop_entry_within(block, expected) ==
    LET name == generate_test_case_name("loop_within", expected.cif_entry_name)
        r == get_loop_entry_from_cif_block(block, expected.cif_entry_name, RowLookupTuples(expected))
    IN  IF r.kind = "raise" THEN ErrorVerdict(name, r, LoopCaught)
        ELSE LET actual_float == ParseFloat(r.value)
             IN  IF ~actual_float.ok
                 THEN Verdict(name, FALSE,
                        <<L("[fail] "), L("Loop entry '"), L(expected.cif_entry_name), L("'"),
                          L(" value '"), V(Str(r.value)), L("' is "), L("not a valid number")>>)
                 ELSE LET passed == InRange(expected.min_value, actual_float, expected.max_value)
                      IN  Verdict(name, passed,
                             LoopHead(IF passed THEN "[pass] " ELSE "[fail] ", expected)
                             \o <<L(" value "), V(ParsedStr(actual_float)), L(" is "),
                                  L(IF passed THEN "within" ELSE "outside"), L(" ")>>
                             \o RangeText(expected))

test_cif_loop_entry_contain(block, expected) ==
    LET name == generate_test_case_name("loop_contain", expected.cif_entry_name)
        r == get_loop_entry_from_cif_block(block, expected.cif_entry_name, RowLookupTuples(expected))
    IN  IF r.kind = "raise" THEN ErrorVerdict(name, r, LoopCaught)
        ELSE LET actual_str == Str(r.value)
                 passed == Contains(actual_str, expected.expected_value.s)
             IN  Verdict(name, passed,
                    IF passed
                    THEN LoopHead("[pass] ", expected)
                         \o <<L(" contains '"), V(expected.expected_value.s), L("'")>>
                    ELSE LoopHead("[fail] ", expected)
                         \o <<L(" does not contain '"), V(expected.expected_value.s),
                              L("' (actual: '"), V(actual_str), L("')")>>)

\* test_cif_loop_entry_missing looking at the entry's column alone
test_cif_loop_entry_missing_column_only(block, expected) ==
    LET name == generate_test_case_name("loop_missing", expected.cif_entry_name)
    IN  IF expected.cif_entry_name \notin DOMAIN block.entries
        THEN Verdict(name, TRUE, <<L("[pass] "), L(" is missing as expected")>>)
        ELSE Verdict(name, FALSE, <<L("[fail] "), L(" should be missing but was found")>>)

\* test_cif_loop_entry_missing reporting a failed row lookup as a failed verdict
test_cif_loop_entry_missing_row_fails(block, expected) ==
    LET name == generate_test_case_name("loop_missing", expected.cif_entry_name)
        r == get_loop_entry_from_cif_block(block, expected.cif_entry_name, RowLookupTuples(expected))
    IN  IF r.kind = "raise" /\ r.exc = "ValueMissingError"
        THEN Verdict(name, TRUE, <<L("[pass] "), L(" is missing as expected")>>)
        ELSE IF r.kind = "raise" /\ r.exc \in {"ValueError", "IndexError"}
        THEN Verdict(name, FALSE, <<L("[fail] ")>> \o r.msg)
        ELSE IF r.kind = "raise" THEN Raised(r.exc)
        ELSE Verdict(name, FALSE,
                <<L("[fail] "), L(" should be missing but was found with value '"), V(Str(r.value)), L("'")>>)

\* test_cif_loop_entry_missing with `except Exception` in place of its except clauses
test_cif_loop_entry_missing_catch_all(block, expected) ==
    LET name == generate_test_case_name("loop_missing", expected.cif_entry_name)
        r == get_loop_entry_from_cif_block(block, expected.cif_entry_name, RowLookupTuples(expected))
    IN  IF r.kind = "raise"
        THEN Verdict(name, TRUE, <<L("[pass] "), L(" is missing (lookup failed as expected)")>>)
        ELSE Verdict(name, FALSE,
                <<L("[fail] "), L(" should be missing but was found with value '"), V(Str(r.value)), L("'")>>)

test_cif_loop_entry_missing(block, expected) ==
    LET name == generate_test_case_name("loop_missing", expected.cif_entry_name)
        r == get_loop_entry_from_cif_block(block, expected.cif_entry_name, RowLookupTuples(expected))
    IN  IF r.kind = "raise"
        THEN IF r.exc = "ValueMissingError"
             THEN Verdict(name, TRUE,
                    <<L("[pass] "), L("Loop entry '"), L(expected.cif_entry_name), L("'"),
                      L(" is missing as expected")>>)
             ELSE IF r.exc \in {"ValueError", "IndexError"}
             THEN Verdict(name, TRUE,
                    <<L("[pass] "), L("Loop entry '"), L(expected.cif_entry_name), L("'"),
                      L(" is missing (lookup failed as expected)")>>)
             ELSE Raised(r.exc)
        ELSE Verdict(name, FALSE,
                <<L("[fail] "), L("Loop entry '"), L(expected.cif_entry_name), L("'"),
                  L(" should be missing but was found with value '"), V(Str(r.value)), L("'")>>)

test_cif_loop_entry_present(block, expected) ==
    LET name == generate_test_case_name("loop_present", expected.cif_entry_name)
        r == get_loop_entry_from_cif_block(block, expected.cif_entry_name, RowLookupTuples(expected))
    IN  IF r.kind = "raise" THEN ErrorVerdict(name, r, LoopCaught)
        ELSE LET actual_str == strip(Str(r.value))
                 is_undefined == IsUndefined(actual_str)
             IN  IF is_undefined /\ ~expected.allow_unknown
                 THEN Verdict(name, FALSE,
                        LoopHead("[fail] ", expected)
                        \o <<L(" is present but has "), L("undefined"), L(" value '"), V(actual_str),
                             L("' (allow_unknown=False)")>>)
                 ELSE Verdict(name, TRUE,
                        LoopHead("[pass] ", expected)
                        \o <<L(" is present with value '"), V(Str(r.value)), L("'")>>)

\* TEST_FUNCTION_MAP with the functions of two classes exchanged and one class left out
TEST_FUNCTION_MAP_exchanged(block, expected) ==
    CASE expected.cls = "CifEntryMatchExpectedResult" -> test_cif_entry_match(block, expected)
      [] expected.cls = "CifEntryNonMatchExpectedResult" -> test_cif_entry_non_match(block, expected)
      [] expected.cls = "CifEntryWithinExpectedResult" -> test_cif_entry_within(block, expected)
      [] expected.cls = "CifEntryContainExpectedResult" -> test_cif_entry_contain(block, expected)
      [] expected.cls = "CifEntryMissingExpectedResult" -> test_cif_entry_present(block, expected)
      [] expected.cls = "CifEntryPresentExpectedResult" -> test_cif_entry_missing(block, expected)
      [] expected.cls = "CifLoopEntryMatchExpectedResult" -> test_cif_loop_entry_match(block, expected)
      [] expected.cls = "CifLoopEntryNonMatchExpectedResult" -> test_cif_loop_entry_non_match(block, expected)
      [] expected.cls = "CifLoopEntryWithinExpectedResult" -> test_cif_loop_entry_within(block, expected)
      [] expected.cls = "CifLoopEntryContainExpectedResult" -> test_cif_loop_entry_contain(block, expected)
      [] expected.cls = "CifLoopEntryMissingExpectedResult" -> test_cif_loop_entry_missing(block, expected)
      [] OTHER ->
            Verdict(generate_test_case_name("unknown", ""), FALSE,
                    <<L("[fail] "), L("Unknown test type"), L(": "), L(expected.cls)>>)

\* TEST_FUNCTION_MAP.get(type(expected_result)), applied to the adapter's block
TEST_FUNCTION_MAP(block, expected) ==
    CASE expected.cls = "CifEntryMatchExpectedResult" -> test_cif_entry_match(block, expected)
      [] expected.cls = "CifEntryNonMatchExpectedResult" -> test_cif_entry_non_match(block, expected)
      [] expected.cls = "CifEntryWithinExpectedResult" -> test_cif_entry_within(block, expected)
      [] expected.cls = "CifEntryContainExpectedResult" -> test_cif_entry_contain(block, expected)
      [] expected.cls = "CifEntryMissingExpectedResult" -> test_cif_entry_missing(block, expected)
      [] expected.cls = "CifEntryPresentExpectedResult" -> test_cif_entry_present(block, expected)
      [] expected.cls = "CifLoopEntryMatchExpectedResult" -> test_cif_loop_entry_match(block, expected)
      [] expected.cls = "CifLoopEntryNonMatchExpectedResult" -> test_cif_loop_entry_non_match(block, expected)
      [] expected.cls = "CifLoopEntryWithinExpectedResult" -> test_cif_loop_entry_within(block, expected)
      [] expected.cls = "CifLoopEntryContainExpectedResult" -> test_cif_loop_entry_contain(block, expected)
      [] expected.cls = "CifLoopEntryMissingExpectedResult" -> test_cif_loop_entry_missing(block, expected)
      [] expected.cls = "CifLoopEntryPresentExpectedResult" -> test_cif_loop_entry_present(block, expected)
      [] OTHER ->
            Verdict(generate_test_case_name("unknown", ""), FALSE,
                    <<L("[fail] "), L("Unknown test type"), L(": "), L(expected.cls)>>)

\* check_result with the parser's exceptions reported as failed verdicts
check_result_catch_all(cif_text, expected_result) ==
    LET adapter == PyCIFRWAdapter(cif_text)
    IN  IF adapter.kind = "raise"
        THEN Verdict(generate_test_case_name("unknown", ""), FALSE, <<L("[fail] "), L(adapter.exc)>>)
        ELSE TEST_FUNCTION_MAP(adapter.block, expected_result)

\* check_result(cif_text, expected_result): an exception of the adapter's
\* constructor is caught nowhere
CheckResult(cif_text, expected_result) ==
    LET adapter == PyCIFRWAdapter(cif_text)
    IN  IF adapter.kind = "raise" THEN Raised(adapter.exc)
        ELSE TEST_FUNCTION_MAP(adapter.block, expected_result)

\* check_result reading a text stream that an earlier call has read to its end
check_result_exhausted(history, cif_text, expected_result) ==
    IF history # <<>> THEN CheckResult(EmptyText, expected_result)
    ELSE CheckResult(cif_text, expected_result)

\* check_result(cif_text, expected_result) called after other calls, `history`
\* being what those returned: the adapter is built anew from cif_text and
\* the function reads nothing an earlier call wrote
check_result_after(history, cif_text, expected_result) == CheckResult(cif_text, expected_result)

(***************************************************************************)
(* The expected-result model.  The declarative input is a dict: `keys` is  *)
(* the set of keys it holds, the other fields are their values (a default  *)
(* where the key is absent).  A specification is one record shape for the  *)
(* thirteen classes, `cls` naming the class.                               *)
(***************************************************************************)
NoData ==
    [keys |-> {}, result_type |-> "", test_type |-> "", cif_entry_name |-> "", row_lookup |-> <<>>,
     expected_value |-> NoneV, forbidden_value |-> NoneV, allowed_deviation |-> NoneV,
     min_value |-> NoneV, max_value |-> NoneV, allow_unknown |-> FALSE, expected |-> ""]

NoSpec ==
    [cls |-> "", cif_entry_name |-> "", row_lookup |-> <<>>, expected_value |-> NoneV,
     forbidden_value |-> NoneV, min_value |-> 0, max_value |-> 0, allow_unknown |-> FALSE,
     expected |-> ""]

\* a Python number in tenths
Tenths(v) == IF v.t = "int" THEN 10 * v.n ELSE v.n

MinMax(min_val, max_val) == [ok |-> TRUE, min_val |-> min_val, max_val |-> max_val, error |-> ""]
MinMaxError(error) == [ok |-> FALSE, min_val |-> 0, max_val |-> 0, error |-> error]

data_to_minmax(data) ==
    LET has1 == {"expected_value", "allowed_deviation"} \subseteq data.keys
        has2 == {"min_value", "max_value"} \subseteq data.keys
    IN  IF ~(has1 \/ has2)
        THEN MinMaxError("Within test requires either (expected_value + allowed_deviation) or (min_value + max_value)")
        ELSE IF has1
        THEN LET expected == Tenths(data.expected_value)
                 deviation == Tenths(data.allowed_deviation)
             IN  MinMax(expected - deviation, expected + deviation)
        ELSE LET min_val == Tenths(data.min_value)
                 max_val == Tenths(data.max_value)
             IN  IF min_val > max_val
                 THEN MinMaxError("min_value cannot be greater than max_value")
                 ELSE MinMax(min_val, max_val)

Built(spec) == [kind |-> "spec", ok |-> TRUE, spec |-> spec, error |-> ""]
Invalid(error) == [kind |-> "error", ok |-> FALSE, spec |-> NoSpec, error |-> error]
NoBuilt == [kind |-> "none", ok |-> FALSE, spec |-> NoSpec, error |-> ""]

\* cif_entry_name: str = Field(..., min_length=1)
ValidEntryName(data) == "cif_entry_name" \in data.keys /\ data.cif_entry_name # ""

\* row_lookup: list[RowLookup] without the two min_length constraints
ValidRowLookupAnyLength(data) == "row_lookup" \in data.keys

\* row_lookup: list[RowLookup] = Field(..., min_length=1), row_entry_name of min_length 1
ValidRowLookup(data) ==
    /\ "row_lookup" \in data.keys
    /\ Len(data.row_lookup) >= 1
    /\ \A i \in 1..Len(data.row_lookup) : data.row_lookup[i].row_entry_name # ""

\* the fields every class of the result_type declares
ValidBase(data) ==
    /\ ValidEntryName(data)
    /\ data.result_type = "cif_loop_value" => ValidRowLookup(data)

\* the class the two discriminators select
ClassOf(data) ==
    LET prefix == IF data.result_type = "cif_value" THEN "CifEntry" ELSE "CifLoopEntry"
    IN  CASE data.test_type = "match" -> prefix \o "MatchExpectedResult"
          [] data.test_type = "non-match" -> prefix \o "NonMatchExpectedResult"
          [] data.test_type = "within" -> prefix \o "WithinExpectedResult"
          [] data.test_type = "contain" -> prefix \o "ContainExpectedResult"
          [] data.test_type = "missing" -> prefix \o "MissingExpectedResult"
          [] data.test_type = "present" -> prefix \o "PresentExpectedResult"
          [] OTHER -> ""

BaseSpec(data) ==
    [NoSpec EXCEPT !.cls = ClassOf(data),
                   !.cif_entry_name = data.cif_entry_name,
                   !.row_lookup = IF data.result_type = "cif_loop_value" THEN data.row_lookup ELSE <<>>]

\* CifEntryWithinExpectedResult.__init__ and CifLoopEntryWithinExpectedResult.__init__
WithinExpectedResult(data) ==
    LET minmax == data_to_minmax(data)
    IN  IF ~minmax.ok THEN Invalid(minmax.error)
        ELSE IF ~ValidBase(data) THEN Invalid("validation error")
        ELSE Built([BaseSpec(data) EXCEPT !.min_value = minmax.min_val, !.max_value = minmax.max_val])

\* expected: Literal["successful", "failed", "warning"]
StatusLiterals == {"successful", "failed", "warning"}

\* StatusExpectedResult(**data)
StatusExpectedResult(data) ==
    IF "expected" \in data.keys /\ data.expected \in StatusLiterals
    THEN Built([NoSpec EXCEPT !.cls = "StatusExpectedResult", !.expected = data.expected])
    ELSE Invalid("validation error")

(***************************************************************************)
(* ExpectedResultTypeAdapter.validate_python: the discriminated unions     *)
(* select the class, the class validates its fields.  Keys a class does    *)
(* not declare are ignored.                                                *)
(***************************************************************************)
validate_python(data) ==
    IF "result_type" \notin data.keys
       \/ data.result_type \notin {"status", "cif_value", "cif_loop_value"}
    THEN Invalid("union_tag_invalid")
    ELSE IF data.result_type = "status" THEN StatusExpectedResult(data)
    ELSE IF "test_type" \notin data.keys \/ ClassOf(data) = ""
    THEN Invalid("union_tag_invalid")
    ELSE IF data.test_type = "within" THEN WithinExpectedResult(data)
    ELSE IF ~ValidBase(data) THEN Invalid("validation error")
    ELSE CASE data.test_type = "match" ->
                IF "expected_value" \in data.keys
                THEN Built([BaseSpec(data) EXCEPT !.expected_value = data.expected_value])
                ELSE Invalid("validation error")
           [] data.test_type = "non-match" ->
                IF "forbidden_value" \in data.keys
                THEN Built([BaseSpec(data) EXCEPT !.forbidden_value = data.forbidden_value])
                ELSE Invalid("validation error")
           [] data.test_type = "contain" ->
                IF "expected_value" \in data.keys /\ data.expected_value.t = "str"
                THEN Built([BaseSpec(data) EXCEPT !.expected_value = data.expected_value])
                ELSE Invalid("validation error")
           [] data.test_type = "missing" -> Built(BaseSpec(data))
           [] data.test_type = "present" ->
                Built([BaseSpec(data) EXCEPT
                         !.allow_unknown = IF "allow_unknown" \in data.keys
                                           THEN data.allow_unknown ELSE FALSE])

(***************************************************************************)
(* run_suite: run_test_case and run_test_suite.  A test case or test suite *)
(* object is written by the module whose class it is an instance of, which *)
(* decides the attributes it has: models/__init__.py declares              *)
(* qcrbox_application_slug and application_slug, models.py (and the        *)
(* objects tests/test_run_suite.py builds) qcrbox_application_name and     *)
(* application_name.  Reading an attribute an object lacks raises          *)
(* AttributeError.                                                         *)
(***************************************************************************)
TestCaseAttributes(module) ==
    {"name", "description", "qcrbox_application_version", "qcrbox_command_name",
     "qcrbox_command_parameters", "expected_results"}
    \cup (IF module = "models/__init__" THEN {"qcrbox_application_slug"}
          ELSE {"qcrbox_application_name"})

TestSuiteAttributes(module) ==
    {"application_version", "description", "tests"}
    \cup (IF module = "models/__init__" THEN {"application_slug"} ELSE {"application_name"})

TestCase(module, name, expected_results) ==
    [module |-> module, name |-> name, expected_results |-> expected_results]

TestSuite(module, tests) == [module |-> module, tests |-> tests]

\* result_cif=None
NoneText == [kind |-> "None", block |-> NoBlock]

CommandRunResult(status, result_cif) == [status |-> status, result_cif |-> result_cif]

TestCaseResult(test_case_name, all_passed, individual_results) ==
    [kind |-> "returned", test_case_name |-> test_case_name, all_passed |-> all_passed,
     individual_results |-> individual_results, exc |-> ""]
\* an exception left run_test_case
CaseRaised(exc) ==
    [kind |-> "raised", test_case_name |-> "", all_passed |-> FALSE,
     individual_results |-> <<>>, exc |-> exc]

TestSuiteResult(application_name, all_passed, test_results) ==
    [kind |-> "returned", application_name |-> application_name, all_passed |-> all_passed,
     test_results |-> test_results, exc |-> ""]
\* an exception left run_test_suite
SuiteRaised(exc) ==
    [kind |-> "raised", application_name |-> "", all_passed |-> FALSE,
     test_results |-> <<>>, exc |-> exc]

\* CommandFailedResult with passed=True
CommandFailedResultPassing(test_case, expected_result) ==
    Verdict(test_case.name, TRUE, <<L("Command execution failed")>>)

\* IndividualTestResult(test_case_name=test_case.name, passed=False,
\*     log=f"Command execution failed; cannot check expected result of type {...}")
CommandFailedResult(test_case, expected_result) ==
    Verdict(test_case.name, FALSE,
            <<L("Command execution failed"), L("; cannot check expected result of type "),
              L(expected_result.cls)>>)

\* cif_text=command_result.result_cif if command_result.result_cif is not None else ""
ResultCifText(command_result) ==
    IF command_result.result_cif.kind # "None" THEN command_result.result_cif ELSE EmptyText

RECURSIVE ExpectedResultsLoop(_, _, _, _)
\* the end of the loop body, `result` being what check_result gave: an
\* exception ends the call, a verdict is appended and the loop goes on
AppendResult(test_case, command_result, individual_results, all_passed, result) ==
    IF result.kind = "raised" THEN CaseRaised(result.exc)
    ELSE ExpectedResultsLoop(test_case, command_result,
            Append(individual_results, result), all_passed /\ result.passed)

\* the for loop of run_test_case, from the expected result after those
\* whose results individual_results holds
ExpectedResultsLoop(test_case, command_result, individual_results, all_passed) ==
    IF Len(individual_results) >= Len(test_case.expected_results)
    THEN TestCaseResult(test_case.name, all_passed, individual_results)
    ELSE IF command_result.status # "successful"
    THEN ExpectedResultsLoop(test_case, command_result,
            Append(individual_results,
                   CommandFailedResult(test_case,
                        test_case.expected_results[Len(individual_results) + 1])),
            FALSE)
    ELSE AppendResult(test_case, command_result, individual_results, all_passed,
            CheckResult(ResultCifText(command_result),
                        test_case.expected_results[Len(individual_results) + 1]))

\* run_test_case(client, test_case), command_result being what
\* run_qcrbox_command returns; the arguments of that call are read first
RunTestCase(test_case, command_result) ==
    IF "qcrbox_application_name" \notin TestCaseAttributes(test_case.module)
    THEN CaseRaised("AttributeError")
    ELSE ExpectedResultsLoop(test_case, command_result, <<>>, TRUE)

\* what the list comprehension of run_test_suite gave
CaseResults(case_results) == [kind |-> "returned", case_results |-> case_results, exc |-> ""]
CaseResultsRaised(exc) == [kind |-> "raised", case_results |-> <<>>, exc |-> exc]

RECURSIVE CaseResultsLoop(_, _, _)
\* one item of the comprehension, `case` being what run_test_case gave
AppendCase(test_suite, command_results, case_results, case) ==
    IF case.kind = "raised" THEN CaseResultsRaised(case.exc)
    ELSE CaseResultsLoop(test_suite, command_results, Append(case_results, case))

\* [run_test_case(client, test_case) for test_case in test_suite.tests]
CaseResultsLoop(test_suite, command_results, case_results) ==
    IF Len(case_results) >= Len(test_suite.tests)
    THEN CaseResults(case_results)
    ELSE AppendCase(test_suite, command_results, case_results,
            RunTestCase(test_suite.tests[Len(case_results) + 1],
                        command_results[Len(case_results) + 1]))

\* any(case.all_passed for case in case_results)
AnyPassed(case_results) == \E i \in 1..Len(case_results) : case_results[i].all_passed

\* all(case.all_passed for case in case_results)
AllPassed(case_results) == \A i \in 1..Len(case_results) : case_results[i].all_passed

\* return TestSuiteResult(application_name=test_suite.application_name, ...),
\* `cases` being what the comprehension gave
ReturnSuiteResult(test_suite, cases) ==
    IF cases.kind = "raised" THEN SuiteRaised(cases.exc)
    ELSE IF "application_name" \notin TestSuiteAttributes(test_suite.module)
    THEN SuiteRaised("AttributeError")
    ELSE TestSuiteResult("test_app", AllPassed(cases.case_results), cases.case_results)

\* run_test_suite(client, test_suite), command_results being what the calls
\* of run_qcrbox_command return, in order
RunTestSuite(test_suite, command_results) ==
    ReturnSuiteResult(test_suite, CaseResultsLoop(test_suite, command_results, <<>>))

(***************************************************************************)
(* models.py: the output tests EntryOutputTest and LoopEntryOutputTest, an *)
(* exact accepted value or a range.  `test_data` is the keyword arguments  *)
(* of the constructor: `keys` is the set of keywords given, the other      *)
(* fields their values.  A field whose keyword is not given is None.       *)
(***************************************************************************)
NoTestData ==
    [keys |-> {}, cif_entry_name |-> "", row_lookup_entry |-> "", row_lookup_value |-> NoneV,
     accepted_value |-> NoneV, accepted_min_value |-> NoneV, accepted_max_value |-> NoneV]

NoOutputTest ==
    [cls |-> "", cif_entry_name |-> "", row_lookup_entry |-> "", row_lookup_value |-> NoneV,
     accepted_value |-> NoneV, accepted_min_value |-> NoneV, accepted_max_value |-> NoneV,
     expected_status |-> ""]

OutputBuilt(obj) == [kind |-> "built", obj |-> obj, exc |-> "", error |-> ""]
OutputRaised(exc, error) == [kind |-> "raised", obj |-> NoOutputTest, exc |-> exc, error |-> error]
NoOutput == [kind |-> "none", obj |-> NoOutputTest, exc |-> "", error |-> ""]

\* accepted_min_value: float | None: a number given is held as a float
FloatField(v) == IF v.t \in {"int", "float"} THEN FloatV(Tenths(v)) ELSE v

\* validate_value_specifications without the check that a range has both bounds
validate_value_specifications_one_bound(self) ==
    LET has_exact == self.accepted_value # NoneV
        has_range == self.accepted_min_value # NoneV \/ self.accepted_max_value # NoneV
    IN  IF ~has_exact /\ ~has_range
        THEN "Either accepted_value or a range (accepted_min_value/accepted_max_value) must be specified"
        ELSE IF has_exact /\ has_range
        THEN "Cannot specify both accepted_value and range values (accepted_min_value/accepted_max_value)"
        ELSE ""

\* EntryOutputTest.validate_value_specifications and
\* LoopEntryOutputTest.validate_value_specifications, the same text twice:
\* the message of the ValueError raised, "" where self is returned
validate_value_specifications(self) ==
    LET has_exact == self.accepted_value # NoneV
        has_min == self.accepted_min_value # NoneV
        has_max == self.accepted_max_value # NoneV
        has_range == has_min \/ has_max
    IN  IF ~has_exact /\ ~has_range
        THEN "Either accepted_value or a range (accepted_min_value/accepted_max_value) must be specified"
        ELSE IF has_exact /\ has_range
        THEN "Cannot specify both accepted_value and range values (accepted_min_value/accepted_max_value)"
        ELSE IF has_range /\ ~(has_min /\ has_max)
        THEN "Both accepted_min_value and accepted_max_value must be specified for a range"
        ELSE IF has_range /\ self.accepted_min_value.n > self.accepted_max_value.n
        THEN "accepted_min_value cannot be greater than accepted_max_value"
        ELSE ""

\* the fields of the object, before the model validator runs
OutputTestFields(cls, test_data) ==
    [NoOutputTest EXCEPT
        !.cls = cls,
        !.cif_entry_name = test_data.cif_entry_name,
        !.row_lookup_entry = test_data.row_lookup_entry,
        !.row_lookup_value = test_data.row_lookup_value,
        !.accepted_value = IF "accepted_value" \in test_data.keys
                           THEN test_data.accepted_value ELSE NoneV,
        !.accepted_min_value = IF "accepted_min_value" \in test_data.keys
                               THEN FloatField(test_data.accepted_min_value) ELSE NoneV,
        !.accepted_max_value = IF "accepted_max_value" \in test_data.keys
                               THEN FloatField(test_data.accepted_max_value) ELSE NoneV]

\* the model validator, run on the fields that passed their own validation
ValidatedOutputTest(self) ==
    IF validate_value_specifications(self) # ""
    THEN OutputRaised("ValidationError", validate_value_specifications(self))
    ELSE OutputBuilt(self)

\* EntryOutputTest(**test_data): cif_entry_name is required and of min_length 1
EntryOutputTest(test_data) ==
    IF "cif_entry_name" \notin test_data.keys \/ test_data.cif_entry_name = ""
    THEN OutputRaised("ValidationError", "cif_entry_name")
    ELSE ValidatedOutputTest(OutputTestFields("EntryOutputTest", test_data))

\* LoopEntryOutputTest(**test_data): the three names are required, the two
\* texts of min_length 1
LoopEntryOutputTest(test_data) ==
    IF "cif_entry_name" \notin test_data.keys \/ test_data.cif_entry_name = ""
    THEN OutputRaised("ValidationError", "cif_entry_name")
    ELSE IF "row_lookup_entry" \notin test_data.keys \/ test_data.row_lookup_entry = ""
    THEN OutputRaised("ValidationError", "row_lookup_entry")
    ELSE IF "row_lookup_value" \notin test_data.keys \/ test_data.row_lookup_value = NoneV
    THEN OutputRaised("ValidationError", "row_lookup_value")
    ELSE ValidatedOutputTest(OutputTestFields("LoopEntryOutputTest", test_data))

\* StatusTest(expected_status=...)
StatusTest(expected_status) ==
    IF expected_status \in StatusLiterals
    THEN OutputBuilt([NoOutputTest EXCEPT !.cls = "StatusTest", !.expected_status = expected_status])
    ELSE OutputRaised("ValidationError", "expected_status")

\* the YAML dict of an expected result of models.py
NoYamlData ==
    [keys |-> {}, result_type |-> "", cif_entry_name |-> "", row_lookup_name |-> "",
     row_lookup_value |-> NoneV, accepted_min_value |-> NoneV, accepted_max_value |-> NoneV,
     expected_value |-> NoneV, allowed_deviation |-> NoneV, expected |-> ""]

IsNumber(v) == v.t \in {"int", "float"}

\* base_value - deviation and base_value + deviation, of two numbers
Difference(a, b) ==
    IF a.t = "int" /\ b.t = "int" THEN IntV(a.n - b.n) ELSE FloatV(Tenths(a) - Tenths(b))
Sum(a, b) ==
    IF a.t = "int" /\ b.t = "int" THEN IntV(a.n + b.n) ELSE FloatV(Tenths(a) + Tenths(b))

\* "Handle range specifications": what the if / elif chain adds to
\* test_data; it adds nothing where no branch is taken
RangeSpecification(data, test_data) ==
    IF {"accepted_min_value", "accepted_max_value"} \subseteq data.keys
    THEN [test_data EXCEPT !.keys = @ \cup {"accepted_min_value", "accepted_max_value"},
                           !.accepted_min_value = data.accepted_min_value,
                           !.accepted_max_value = data.accepted_max_value]
    ELSE IF {"expected_value", "allowed_deviation"} \subseteq data.keys
    THEN [test_data EXCEPT !.keys = @ \cup {"accepted_min_value", "accepted_max_value"},
                           !.accepted_min_value = Difference(data.expected_value, data.allowed_deviation),
                           !.accepted_max_value = Sum(data.expected_value, data.allowed_deviation)]
    ELSE IF "expected_value" \in data.keys
    THEN [test_data EXCEPT !.keys = @ \cup {"accepted_value"},
                           !.accepted_value = data.expected_value]
    ELSE test_data

\* the deviation branch is taken and its arithmetic is not of two numbers
DeviationTypeError(data) ==
    /\ ~({"accepted_min_value", "accepted_max_value"} \subseteq data.keys)
    /\ {"expected_value", "allowed_deviation"} \subseteq data.keys
    /\ ~(IsNumber(data.expected_value) /\ IsNumber(data.allowed_deviation))

\* no branch of the chain is taken
NoValueSpecification(data) ==
    /\ ~({"accepted_min_value", "accepted_max_value"} \subseteq data.keys)
    /\ "expected_value" \notin data.keys

\* BaseOutputTest.from_yaml_dict(data)
from_yaml_dict(data) ==
    IF "result_type" \in data.keys /\ data.result_type = "status"
    THEN IF "expected" \notin data.keys THEN OutputRaised("KeyError", "expected")
         ELSE StatusTest(data.expected)
    ELSE IF "result_type" \in data.keys /\ data.result_type = "cif_value"
    THEN IF "cif_entry_name" \notin data.keys THEN OutputRaised("KeyError", "cif_entry_name")
         ELSE IF DeviationTypeError(data) THEN OutputRaised("TypeError", "unsupported operand type(s)")
         ELSE EntryOutputTest(
                RangeSpecification(data,
                    [NoTestData EXCEPT !.keys = {"cif_entry_name"},
                                       !.cif_entry_name = data.cif_entry_name]))
    ELSE IF "result_type" \in data.keys /\ data.result_type = "cif_loop_value"
    THEN IF "cif_entry_name" \notin data.keys THEN OutputRaised("KeyError", "cif_entry_name")
         ELSE IF "row_lookup_name" \notin data.keys THEN OutputRaised("KeyError", "row_lookup_name")
         ELSE IF "row_lookup_value" \notin data.keys THEN OutputRaised("KeyError", "row_lookup_value")
         ELSE IF DeviationTypeError(data) THEN OutputRaised("TypeError", "unsupported operand type(s)")
         ELSE IF NoValueSpecification(data)
         THEN OutputRaised("ValueError", "Missing expected_value for cif_loop_value")
         ELSE LoopEntryOutputTest(
                RangeSpecification(data,
                    [NoTestData EXCEPT !.keys = {"cif_entry_name", "row_lookup_entry", "row_lookup_value"},
                                       !.cif_entry_name = data.cif_entry_name,
                                       !.row_lookup_entry = data.row_lookup_name,
                                       !.row_lookup_value = data.row_lookup_value]))
    ELSE OutputRaised("ValueError", "Unknown result type")

(***************************************************************************)
(* models/__init__.py: the construction of a TestCase and of a TestSuite.  *)
(* `kwargs` is the keyword arguments of the constructor: `keys` is the set *)
(* of keywords given.  A field validator runs on a value that is given: a  *)
(* field whose keyword is not given takes its default, which pydantic does *)
(* not validate (no validate_default).  A model validator runs on every    *)
(* object whose fields are valid.                                          *)
(***************************************************************************)
NoKwargs ==
    [keys |-> {}, name |-> "", qcrbox_command_parameters |-> <<>>, expected_results |-> <<>>,
     tests |-> <<>>]

NoModel ==
    [cls |-> "", name |-> "", qcrbox_command_parameters |-> <<>>, expected_results |-> <<>>,
     tests |-> <<>>]

ModelBuilt(obj) == [kind |-> "built", obj |-> obj, error |-> ""]
ModelInvalid(error) == [kind |-> "error", obj |-> NoModel, error |-> error]
NoConstructed == [kind |-> "none", obj |-> NoModel, error |-> ""]

\* len(names) != len(set(names))
HasDuplicates(names) == Len(names) # Cardinality({names[i] : i \in 1..Len(names)})

\* TestCase.must_have_at_least_one_result(v): the message of the
\* ValueError raised, "" where v is returned
must_have_at_least_one_result(v) ==
    IF v = <<>> THEN "Test case must have at least one expected result" ELSE ""

\* TestCase.validate_parameter_names_unique(self)
validate_parameter_names_unique(self) ==
    LET names == [i \in 1..Len(self.qcrbox_command_parameters) |->
                    self.qcrbox_command_parameters[i].name]
    IN  IF HasDuplicates(names) THEN "Duplicate parameter names found" ELSE ""

\* TestSuite.must_have_tests(v)
must_have_tests(v) ==
    IF v = <<>> THEN "Test suite must contain at least one test" ELSE ""

\* TestSuite.validate_test_names_unique(self)
validate_test_names_unique(self) ==
    LET names == [i \in 1..Len(self.tests) |-> self.tests[i].name]
    IN  IF HasDuplicates(names) THEN "Duplicate test names found" ELSE ""

\* TestCase(**kwargs): name is required and of min_length 1; the two lists
\* default to the empty list
TestCaseModel(kwargs) ==
    LET self == [NoModel EXCEPT
                    !.cls = "TestCase",
                    !.name = kwargs.name,
                    !.qcrbox_command_parameters =
                        IF "qcrbox_command_parameters" \in kwargs.keys
                        THEN kwargs.qcrbox_command_parameters ELSE <<>>,
                    !.expected_results =
                        IF "expected_results" \in kwargs.keys
                        THEN kwargs.expected_results ELSE <<>>]
    IN  IF "name" \notin kwargs.keys \/ kwargs.name = ""
        THEN ModelInvalid("name")
        ELSE IF "expected_results" \in kwargs.keys
                /\ must_have_at_least_one_result(kwargs.expected_results) # ""
        THEN ModelInvalid(must_have_at_least_one_result(kwargs.expected_results))
        ELSE IF validate_parameter_names_unique(self) # ""
        THEN ModelInvalid(validate_parameter_names_unique(self))
        ELSE ModelBuilt(self)

\* TestSuite(**kwargs): tests defaults to the empty list
TestSuiteModel(kwargs) ==
    LET self == [NoModel EXCEPT
                    !.cls = "TestSuite",
                    !.tests = IF "tests" \in kwargs.keys THEN kwargs.tests ELSE <<>>]
    IN  IF "tests" \in kwargs.keys /\ must_have_tests(kwargs.tests) # ""
        THEN ModelInvalid(must_have_tests(kwargs.tests))
        ELSE IF validate_test_names_unique(self) # ""
        THEN ModelInvalid(validate_test_names_unique(self))
        ELSE ModelBuilt(self)

(***************************************************************************)
(* qcrbox_client: run_qcrbox_command against the QCrBox service.  A        *)
(* dataset id is <<"input", i>> for the dataset the i-th upload created    *)
(* and <<"output", 1>> for the output dataset of the calculation.          *)
(* `requests` is the dataset requests the call has sent, in order.         *)
(***************************************************************************)
\* upload_filename is None
NoFilename == "None"

\* QCrBoxParameter(name=name, value=...)
QCrBoxParameter(name) ==
    [cls |-> "QCrBoxParameter", name |-> name, upload_filename |-> NoFilename]

\* QCrBoxFileParameter(name=name, cif_content=..., upload_filename=upload_filename)
QCrBoxFileParameter(name, upload_filename) ==
    [cls |-> "QCrBoxFileParameter", name |-> name, upload_filename |-> upload_filename]

NoDataset == <<"none", 0>>
CreateDataset(file_name, dataset_id, lookup_name) ==
    [op |-> "create_dataset", file_name |-> file_name, id |-> dataset_id, lookup |-> lookup_name]
DownloadDataset(dataset_id) ==
    [op |-> "download_dataset_by_id", file_name |-> "", id |-> dataset_id, lookup |-> ""]
DeleteDataset(dataset_id) ==
    [op |-> "delete_dataset_by_id", file_name |-> "", id |-> dataset_id, lookup |-> ""]

\* the file name prepare_qcrbox_parameters hands to upload_cif_as_dataset:
\* f"{param.name}.cif"
UploadFileName(param) == param.name \o ".cif"

\* upload_cif_as_dataset(client, cif_text, file_name), the service creating
\* dataset_id: the file is sent as file_name, and the data-file id is looked
\* up in the response under file_name
upload_cif_as_dataset(file_name, dataset_id) == CreateDataset(file_name, dataset_id, file_name)

\* prepare_qcrbox_parameters(client, parameters), `responses` being what
\* create_dataset answers to each upload ("ok" or "error"): the requests
\* sent, the dataset ids collected, and whether an upload raised
prepare_qcrbox_parameters(parameters, responses) ==
    LET dataset_params == SelectSeq(parameters, LAMBDA param : param.cls = "QCrBoxFileParameter")
        errors == {i \in 1..Len(dataset_params) : responses[i] = "error"}
        sent == IF errors = {} THEN Len(dataset_params)
                ELSE CHOOSE i \in errors : \A j \in errors : i <= j
        created == IF errors = {} THEN sent ELSE sent - 1
    IN  [raised |-> errors # {},
         requests |-> [i \in 1..sent |->
                        IF i <= created
                        THEN upload_cif_as_dataset(UploadFileName(dataset_params[i]), <<"input", i>>)
                        ELSE CreateDataset(UploadFileName(dataset_params[i]), NoDataset, "")],
         dataset_ids |-> [i \in 1..created |-> <<"input", i>>]]

\* for dataset_id in input_file_dataset_ids: delete_dataset_by_id.sync(...)
DeleteInputs(input_file_dataset_ids) ==
    [i \in 1..Len(input_file_dataset_ids) |-> DeleteDataset(input_file_dataset_ids[i])]

\* what the call gave: a CommandRunResult or an exception
ClientReturned(status) == [kind |-> "returned", status |-> status, exc |-> ""]
ClientRaised(exc) == [kind |-> "raised", status |-> "", exc |-> exc]
NoRunResult == [kind |-> "none", status |-> "", exc |-> ""]

\* resp.status in ("successful", "failed")
PolledFinal == {"successful", "failed"}

(***************************************************************************)
(* The inputs the model draws from.                                        *)
(***************************************************************************)
\* texts of the scalar entry of a document
ScalarTexts ==
    {<<"1", "2">>, <<"1", ".", "5">>, <<"1", ".", "5", "0">>, <<" ", "C", " ">>, <<"?">>, <<" ", ".">>}
\* texts of the cells of the loop of a document
IndexTexts == {<<"1">>, <<"2">>}
ValueTexts == {<<"1", ".", "5">>, <<"1", "2">>, <<" ", "?", " ">>}

\* the rows a loop is made of: two of index 1, two of index 2
Rows ==
    {r \in [index : IndexTexts, value : ValueTexts] :
        \/ r.index = <<"1">> /\ r.value \in {<<"1", ".", "5">>, <<"1", "2">>}
        \/ r.index = <<"2">> /\ r.value \in {<<"1", ".", "5">>, <<" ", "?", " ">>}}
RowSeqs == UNION {[1..n -> Rows] : n \in 1..MaxRows}

\* the documents: every scalar text beside one loop, and every loop beside one scalar text
Blocks ==
    {Block(t, <<[index |-> <<"1">>, value |-> <<"1", ".", "5">>]>>) : t \in ScalarTexts}
    \cup {Block(<<"C">>, rows) : rows \in RowSeqs}

\* the texts handed to check_result
CifTexts == {CifText(b) : b \in Blocks} \cup {EmptyText, MalformedText}

\* "_cif.entry" is a scalar item, "_loop.value" a looped item, "_missing.entry" in no document
EntryNames == {"_cif.entry", "_loop.value", "_missing.entry"}
\* the entry a loop specification names is a looped item or in no document
LoopEntryNames == {"_loop.value", "_missing.entry"}

RowLookup(name, value) == [row_entry_name |-> name, row_entry_value |-> value]
RowLookups ==
    {RowLookup("_loop.index", IntV(1)), RowLookup("_loop.index", IntV(2)),
     RowLookup("_loop.value", FloatV(15)), RowLookup("_missing.column", IntV(1))}
RowLookupSeqs == UNION {[1..n -> RowLookups] : n \in 1..MaxConds}

\* expected_value of match, forbidden_value of non-match
MatchValues == {StrV(<<" ", "1", ".", "5">>), FloatV(15), IntV(12), FloatV(120)}
\* expected_value of contain
ContainValues == {StrV(<<"1">>), StrV(<<" ", "C">>), StrV(<<"c">>)}
\* the numbers of a within input: -1.5 and 1.5
WithinNumbers == {FloatV(-15), FloatV(15)}
WithinKeys == {"expected_value", "allowed_deviation", "min_value", "max_value"}

\* the payloads of a dict of the test_type: the keys beside the names, and their values
Payloads(test_type) ==
    CASE test_type = "match" ->
            {[NoData EXCEPT !.keys = {"expected_value"}, !.expected_value = v] : v \in MatchValues}
      [] test_type = "non-match" ->
            {[NoData EXCEPT !.keys = {"forbidden_value"}, !.forbidden_value = v] : v \in MatchValues}
      [] test_type = "contain" ->
            {[NoData EXCEPT !.keys = {"expected_value"}, !.expected_value = v] : v \in ContainValues}
      [] test_type = "missing" -> {NoData}
      [] test_type = "present" ->
            {NoData} \cup {[NoData EXCEPT !.keys = {"allow_unknown"}, !.allow_unknown = b] : b \in BOOLEAN}
      [] test_type = "within" ->
            {[NoData EXCEPT !.keys = ks,
                            !.expected_value = IF "expected_value" \in ks THEN f["expected_value"] ELSE NoneV,
                            !.allowed_deviation = IF "allowed_deviation" \in ks THEN f["allowed_deviation"] ELSE NoneV,
                            !.min_value = IF "min_value" \in ks THEN f["min_value"] ELSE NoneV,
                            !.max_value = IF "max_value" \in ks THEN f["max_value"] ELSE NoneV] :
                <<ks, f>> \in (SUBSET WithinKeys) \X [WithinKeys -> WithinNumbers]}

TestTypes == {"match", "non-match", "within", "contain", "missing", "present"}

\* the dicts of result_type "status": the three literals, a fourth word, no `expected`
StatusInputs ==
    {[NoData EXCEPT !.keys = {"result_type", "expected"}, !.result_type = "status", !.expected = e] :
        e \in StatusLiterals \cup {"error"}}
    \cup {[NoData EXCEPT !.keys = {"result_type"}, !.result_type = "status"]}

\* dicts whose names are not valid: the entry name empty or not given, the
\* row lookup not given, empty, or holding an empty column name
UnnamedInputs ==
    UNION {
        LET p == CHOOSE q \in Payloads(tt) : q.keys # {} \/ tt = "missing"
            scalar == [p EXCEPT !.keys = p.keys \cup {"result_type", "test_type", "cif_entry_name"},
                                !.result_type = "cif_value", !.test_type = tt,
                                !.cif_entry_name = "_cif.entry"]
            loop == [p EXCEPT !.keys = p.keys \cup {"result_type", "test_type", "cif_entry_name",
                                                    "row_lookup"},
                              !.result_type = "cif_loop_value", !.test_type = tt,
                              !.cif_entry_name = "_loop.value",
                              !.row_lookup = <<RowLookup("_loop.index", IntV(1))>>]
        IN  {[scalar EXCEPT !.cif_entry_name = ""],
             [scalar EXCEPT !.keys = @ \ {"cif_entry_name"}, !.cif_entry_name = ""],
             [loop EXCEPT !.cif_entry_name = ""],
             [loop EXCEPT !.keys = @ \ {"cif_entry_name"}, !.cif_entry_name = ""],
             [loop EXCEPT !.keys = @ \ {"row_lookup"}, !.row_lookup = <<>>],
             [loop EXCEPT !.row_lookup = <<>>],
             [loop EXCEPT !.row_lookup = <<RowLookup("", IntV(1))>>],
             [loop EXCEPT !.row_lookup = <<RowLookup("_loop.index", IntV(1)), RowLookup("", IntV(1))>>]}
        : tt \in TestTypes}

\* the dicts handed to validate_python
DataInputs ==
    StatusInputs \cup UnnamedInputs \cup
    UNION {
        {[p EXCEPT !.keys = p.keys \cup {"result_type", "test_type", "cif_entry_name"},
                   !.result_type = "cif_value", !.test_type = tt, !.cif_entry_name = name] :
            p \in Payloads(tt), name \in EntryNames}
        \cup
        {[p EXCEPT !.keys = p.keys \cup {"result_type", "test_type", "cif_entry_name", "row_lookup"},
                   !.result_type = "cif_loop_value", !.test_type = tt, !.cif_entry_name = name,
                   !.row_lookup = rl] :
            p \in Payloads(tt), name \in LoopEntryNames, rl \in RowLookupSeqs}
        : tt \in TestTypes}

\* the expected results of the test cases: a scalar match, a loop present
\* and the three status expectations
CaseData ==
    {[NoData EXCEPT !.keys = {"result_type", "expected"}, !.result_type = "status", !.expected = e] :
        e \in StatusLiterals}
    \cup
    {[NoData EXCEPT !.keys = {"result_type", "test_type", "cif_entry_name", "expected_value"},
                    !.result_type = "cif_value", !.test_type = "match",
                    !.cif_entry_name = "_cif.entry", !.expected_value = IntV(12)],
     [NoData EXCEPT !.keys = {"result_type", "test_type", "cif_entry_name", "row_lookup"},
                    !.result_type = "cif_loop_value", !.test_type = "present",
                    !.cif_entry_name = "_loop.value",
                    !.row_lookup = <<RowLookup("_loop.index", IntV(1))>>]}
CaseExpectedResults == {validate_python(d).spec : d \in CaseData}
ExpectedResultSeqs == UNION {[1..n -> CaseExpectedResults] : n \in 1..MaxResults}

Modules == {"models", "models/__init__"}
TestCases == {TestCase(m, "test_simple", ers) : m \in Modules, ers \in ExpectedResultSeqs}

\* a document the scalar match passes on, with one row of index 1
PassingText == CifText(Block(<<"1", "2">>, <<[index |-> <<"1">>, value |-> <<"1", ".", "5">>]>>))
\* a document the scalar match fails on, with two rows of index 1
TwoRowText ==
    CifText(Block(<<"C">>, <<[index |-> <<"1">>, value |-> <<"1", ".", "5">>],
                            [index |-> <<"1">>, value |-> <<"1", "2">>]>>))

\* what run_qcrbox_command returns: "failed" without a document, or
\* "successful" with the text of the output dataset
CommandRunResults ==
    {CommandRunResult("failed", NoneText)}
    \cup {CommandRunResult("successful", t) : t \in {PassingText, TwoRowText, EmptyText, MalformedText}}

\* the test cases of a suite hold one expected result and are named by their place
CaseNames == <<"test_1", "test_2", "test_3", "test_4">>
SuiteExpectedResults ==
    {e \in CaseExpectedResults :
        e.cls = "CifEntryMatchExpectedResult" \/ e.expected = "successful"}
SuiteTests(n) ==
    {[i \in 1..n |-> TestCase(f[i][1], CaseNames[i], <<f[i][2]>>)] :
        f \in [1..n -> Modules \X SuiteExpectedResults]}
TestSuites == {TestSuite(m, tests) : m \in Modules, tests \in UNION {SuiteTests(n) : n \in 1..MaxCases}}
SuiteCommandRunResults ==
    {c \in CommandRunResults : c.result_cif \in {NoneText, PassingText, TwoRowText, MalformedText}}

\* the keyword arguments handed to the output tests of models.py: every
\* subset of the three value keywords, a keyword given holding None, a
\* text or a number
AcceptedValues == {NoneV, StrV(<<"C">>), IntV(12), FloatV(15)}
AcceptedBounds == {NoneV, FloatV(-15), FloatV(15)}
ValueKeywords == {"accepted_value", "accepted_min_value", "accepted_max_value"}
TestDataInputs ==
    {[NoTestData EXCEPT
        !.keys = ks \cup {"cif_entry_name", "row_lookup_entry", "row_lookup_value"},
        !.cif_entry_name = name,
        !.row_lookup_entry = "_loop.index",
        !.row_lookup_value = IntV(1),
        !.accepted_value = IF "accepted_value" \in ks THEN v ELSE NoneV,
        !.accepted_min_value = IF "accepted_min_value" \in ks THEN lo ELSE NoneV,
        !.accepted_max_value = IF "accepted_max_value" \in ks THEN hi ELSE NoneV] :
        ks \in SUBSET ValueKeywords, name \in {"", "_cif.entry"},
        v \in AcceptedValues, lo \in AcceptedBounds, hi \in AcceptedBounds}

\* the YAML dicts handed to from_yaml_dict of models.py
YamlValueKeys == {"accepted_min_value", "accepted_max_value", "expected_value", "allowed_deviation"}
YamlBounds == {FloatV(-15), FloatV(15)}
YamlExpectedValues == {StrV(<<"C">>), FloatV(15)}
YamlDeviations == {FloatV(5), FloatV(-5)}
YamlDataInputs ==
    {[NoYamlData EXCEPT
        !.keys = ks \cup {"result_type", "cif_entry_name", "row_lookup_name", "row_lookup_value"},
        !.result_type = rt,
        !.cif_entry_name = "_cif.entry",
        !.row_lookup_name = "_loop.index",
        !.row_lookup_value = IntV(1),
        !.accepted_min_value = IF "accepted_min_value" \in ks THEN lo ELSE NoneV,
        !.accepted_max_value = IF "accepted_max_value" \in ks THEN hi ELSE NoneV,
        !.expected_value = IF "expected_value" \in ks THEN v ELSE NoneV,
        !.allowed_deviation = IF "allowed_deviation" \in ks THEN d ELSE NoneV] :
        ks \in SUBSET YamlValueKeys, rt \in {"cif_value", "cif_loop_value"},
        lo \in YamlBounds, hi \in YamlBounds, v \in YamlExpectedValues, d \in YamlDeviations}
    \cup {[NoYamlData EXCEPT !.keys = {"result_type", "expected"}, !.result_type = "status",
                             !.expected = e] : e \in {"successful", "error"}}
    \cup {[NoYamlData EXCEPT !.keys = ks, !.result_type = rt] :
            ks \in SUBSET {"result_type"}, rt \in {"status", "cif_value", "cif_loop_value", "other"}}

\* the keyword arguments handed to TestCase of models/__init__.py: the two
\* lists given or not, of up to two parameters and up to MaxResults
\* expected results
ParameterNames == {"param1", "param2"}
ParameterSeqs == UNION {[1..n -> {QCrBoxParameter(p) : p \in ParameterNames}] : n \in 0..2}
OneExpectedResult == validate_python(CHOOSE d \in CaseData : d.result_type = "cif_value").spec
TestCaseKwargs ==
    {[NoKwargs EXCEPT
        !.keys = ks \cup {"name"},
        !.name = name,
        !.qcrbox_command_parameters = IF "qcrbox_command_parameters" \in ks THEN ps ELSE <<>>,
        !.expected_results = IF "expected_results" \in ks THEN [i \in 1..n |-> OneExpectedResult]
                              ELSE <<>>] :
        ks \in SUBSET {"qcrbox_command_parameters", "expected_results"},
        name \in {"", "test_1"}, ps \in ParameterSeqs, n \in 0..MaxResults}

\* the keyword arguments handed to TestSuite: tests given or not, of up to
\* MaxCases test cases of two names
SuiteTestCases ==
    {TestCaseModel([NoKwargs EXCEPT !.keys = {"name", "expected_results"}, !.name = name,
                                    !.expected_results = <<OneExpectedResult>>]).obj :
        name \in {"test_1", "test_2"}}
TestSuiteKwargs ==
    {[NoKwargs EXCEPT !.keys = ks, !.tests = IF "tests" \in ks THEN tests ELSE <<>>] :
        ks \in SUBSET {"tests"}, tests \in UNION {[1..n -> SuiteTestCases] : n \in 0..MaxCases}}

\* the specification evaluated between two evaluations of another: a scalar match
OtherExpectedResult == OneExpectedResult
\* the documents check_result is called on more than once
RepeatedTexts == {PassingText, TwoRowText, EmptyText}

\* the parameters of a command: a value, a file without and a file with
\* an upload_filename
ClientParameters ==
    {QCrBoxParameter("param1"), QCrBoxFileParameter("input_cif", NoFilename),
     QCrBoxFileParameter("input_ins", "custom_name.inp")}
ClientParameterSeqs ==
    {ps \in UNION {[1..n -> ClientParameters] : n \in 0..MaxParams} :
        \A i, j \in 1..Len(ps) : i # j => ps[i].name # ps[j].name}
\* the statuses a calculation ends in
FinalStatuses == StatusLiterals

(***************************************************************************)
(* The state machine.  Each behaviour is one use of the library: a         *)
(* specification is constructed from its dict (Construct) and check_result *)
(* evaluates it against a document, and further calls of check_result      *)
(* evaluate it or another against that document again; or run_test_case    *)
(* runs one test case;                                                     *)
(* or run_test_suite runs one test suite; or an output test of models.py   *)
(* is constructed, from keyword arguments or from a YAML dict; or a        *)
(* TestCase or a TestSuite of models/__init__.py is constructed.           *)
(***************************************************************************)
VARIABLES
    data,       \* the dict handed to validate_python
    built,      \* what validate_python gave: a specification or a validation error
    block,      \* the block of the document check_result parsed
    resolved,   \* what the accessor call of the test function gave
    result,     \* what check_result gave: a verdict or an escaped exception
    document,   \* the text check_result was called on
    evaluations,  \* the later calls of check_result on it: what was evaluated, what it gave
    test_case,        \* the test case handed to run_test_case
    command_result,   \* what run_qcrbox_command is set to return to run_test_case
    case_result,      \* what run_test_case gave: a TestCaseResult or an escaped exception
    test_suite,       \* the test suite handed to run_test_suite
    command_results,  \* what the calls of run_qcrbox_command are set to return, in order
    suite_result,     \* what run_test_suite gave: a TestSuiteResult or an escaped exception
    output_class,     \* the class of models.py constructed, or "from_yaml_dict"
    yaml_data,        \* the YAML dict handed to from_yaml_dict of models.py
    test_data,        \* the keyword arguments handed to the output test of models.py
    output_test,      \* what the construction gave: an output test or an exception
    kwargs,           \* the keyword arguments handed to TestCase or TestSuite
    constructed,      \* what that construction gave: the object or a validation error
    command_parameters,      \* the parameters handed to run_qcrbox_command
    pc,                      \* where the call of run_qcrbox_command is
    requests,                \* the dataset requests the call has sent, in order
    input_file_dataset_ids,  \* the datasets the uploads created
    service,                 \* whether the service answers ("up") or answers with an error
    calculation,             \* the status of the calculation at the service
    output_dataset_id,       \* the output dataset of the calculation, NoDataset if none
    final_response,          \* the status of the calculation the poll found final
    run_result               \* what run_qcrbox_command gave

vars == <<data, built, block, resolved, result, document, evaluations,
          test_case, command_result, case_result, test_suite, command_results, suite_result,
          output_class, yaml_data, test_data, output_test, kwargs, constructed,
          command_parameters, pc, requests, input_file_dataset_ids, service, calculation,
          output_dataset_id, final_response, run_result>>

document_vars == <<data, built, block, resolved, result, document, evaluations>>
case_vars == <<test_case, command_result, case_result>>
suite_vars == <<test_suite, command_results, suite_result>>
output_vars == <<output_class, yaml_data, test_data, output_test>>
model_vars == <<kwargs, constructed>>
client_vars == <<command_parameters, pc, requests, input_file_dataset_ids, service, calculation,
                 output_dataset_id, final_response, run_result>>
library_vars == <<document_vars, case_vars, suite_vars, output_vars, model_vars>>

NoTestCase == TestCase("", "", <<>>)
NoCommandResult == CommandRunResult("", NoneText)
NoCaseResult ==
    [kind |-> "none", test_case_name |-> "", all_passed |-> FALSE, individual_results |-> <<>>, exc |-> ""]
NoTestSuite == TestSuite("", <<>>)
NoSuiteResult ==
    [kind |-> "none", application_name |-> "", all_passed |-> FALSE, test_results |-> <<>>, exc |-> ""]

NoOutcome == [kind |-> "none", value |-> NoneV, exc |-> "", msg |-> <<>>]
NoResult == [kind |-> "none", test_case_name |-> "", passed |-> FALSE, log |-> <<>>, exc |-> ""]

IsLoopSpec(expected) == expected.row_lookup # <<>>

\* the accessor call the test function of the specification makes; none is
\* made for a class that has no test function
Resolve(b, expected) ==
    IF expected.cls = "StatusExpectedResult" THEN NoOutcome
    ELSE IF IsLoopSpec(expected)
    THEN get_loop_entry_from_cif_block(b, expected.cif_entry_name, RowLookupTuples(expected))
    ELSE get_entry_from_cif_block(b, expected.cif_entry_name)

Init ==
    /\ data = NoData
    /\ built = NoBuilt
    /\ block = NoBlock
    /\ resolved = NoOutcome
    /\ result = NoResult
    /\ document = NoneText
    /\ evaluations = <<>>
    /\ test_case = NoTestCase
    /\ command_result = NoCommandResult
    /\ case_result = NoCaseResult
    /\ test_suite = NoTestSuite
    /\ command_results = <<>>
    /\ suite_result = NoSuiteResult
    /\ output_class = ""
    /\ yaml_data = NoYamlData
    /\ test_data = NoTestData
    /\ output_test = NoOutput
    /\ kwargs = NoKwargs
    /\ constructed = NoConstructed
    /\ command_parameters = <<>>
    /\ pc = "idle"
    /\ requests = <<>>
    /\ input_file_dataset_ids = <<>>
    /\ service = "up"
    /\ calculation = "none"
    /\ output_dataset_id = NoDataset
    /\ final_response = "None"
    /\ run_result = NoRunResult

\* nothing was called yet
Idle ==
    /\ built.kind = "none"
    /\ case_result.kind = "none"
    /\ suite_result.kind = "none"
    /\ output_test.kind = "none"
    /\ constructed.kind = "none"

Construct ==
    /\ Idle
    /\ \E d \in DataInputs :
        /\ data' = d
        /\ built' = validate_python(d)
    /\ UNCHANGED <<block, resolved, result, document, evaluations, case_vars, suite_vars, output_vars, model_vars, client_vars>>

check_result ==
    /\ built.kind = "spec"
    /\ result.kind = "none"
    /\ \E cif_text \in CifTexts :
        LET adapter == PyCIFRWAdapter(cif_text)
        IN  /\ block' = adapter.block
            /\ resolved' = IF adapter.kind = "raise" THEN NoOutcome
                            ELSE Resolve(adapter.block, built.spec)
            /\ result' = CheckResult(cif_text, built.spec)
            /\ document' = cif_text
    /\ data' = NoData
    /\ UNCHANGED <<built, evaluations, case_vars, suite_vars, output_vars, model_vars, client_vars>>

\* a further call check_result(document, expected_result), of the
\* specification first evaluated or of another
check_result_again ==
    /\ result.kind # "none"
    /\ document \in RepeatedTexts
    /\ Len(evaluations) < MaxEvaluations
    /\ \E expected_result \in {built.spec, OtherExpectedResult} :
        evaluations' = Append(evaluations,
            [expected_result |-> expected_result,
             result |-> check_result_after(
                            <<result>> \o [k \in 1..Len(evaluations) |-> evaluations[k].result],
                            document, expected_result)])
    /\ UNCHANGED <<data, built, block, resolved, result, document,
                   case_vars, suite_vars, output_vars, model_vars, client_vars>>

run_test_case ==
    /\ Idle
    /\ \E tc \in TestCases, cr \in CommandRunResults :
        /\ test_case' = tc
        /\ command_result' = cr
        /\ case_result' = RunTestCase(tc, cr)
    /\ UNCHANGED <<document_vars, suite_vars, output_vars, model_vars, client_vars>>

run_test_suite ==
    /\ Idle
    /\ \E ts \in TestSuites :
        \E crs \in [1..Len(ts.tests) -> SuiteCommandRunResults] :
            /\ test_suite' = ts
            /\ command_results' = crs
            /\ suite_result' = RunTestSuite(ts, crs)
    /\ UNCHANGED <<document_vars, case_vars, output_vars, model_vars, client_vars>>

\* EntryOutputTest(**td) or LoopEntryOutputTest(**td)
construct_output_test ==
    /\ Idle
    /\ \E cls \in {"EntryOutputTest", "LoopEntryOutputTest"}, td \in TestDataInputs :
        /\ output_class' = cls
        /\ test_data' = td
        /\ output_test' = IF cls = "EntryOutputTest" THEN EntryOutputTest(td)
                           ELSE LoopEntryOutputTest(td)
    /\ UNCHANGED <<document_vars, case_vars, suite_vars, yaml_data, model_vars, client_vars>>

\* BaseOutputTest.from_yaml_dict(d)
output_test_from_yaml_dict ==
    /\ Idle
    /\ \E d \in YamlDataInputs :
        /\ output_class' = "from_yaml_dict"
        /\ yaml_data' = d
        /\ output_test' = from_yaml_dict(d)
    /\ UNCHANGED <<document_vars, case_vars, suite_vars, test_data, model_vars, client_vars>>

\* TestCase(**kw) of models/__init__.py
construct_test_case ==
    /\ Idle
    /\ \E kw \in TestCaseKwargs :
        /\ kwargs' = kw
        /\ constructed' = TestCaseModel(kw)
    /\ UNCHANGED <<document_vars, case_vars, suite_vars, output_vars, client_vars>>

\* TestSuite(**kw) of models/__init__.py
construct_test_suite ==
    /\ Idle
    /\ \E kw \in TestSuiteKwargs :
        /\ kwargs' = kw
        /\ constructed' = TestSuiteModel(kw)
    /\ UNCHANGED <<document_vars, case_vars, suite_vars, output_vars, client_vars>>

Next ==
    \/ Construct
    \/ check_result
    \/ check_result_again
    \/ run_test_case
    \/ run_test_suite
    \/ construct_output_test
    \/ output_test_from_yaml_dict
    \/ construct_test_case
    \/ construct_test_suite

Spec == Init /\ [][Next]_vars

(***************************************************************************)
(* run_qcrbox_command, step by step: the call, the uploads, the command's  *)
(* invocation, each poll of the calculation, and the rest of the function  *)
(* once a poll found a final status.  The service ends the calculation and *)
(* may start to answer with errors at any time.                            *)
(***************************************************************************)
\* run_qcrbox_command(client, command_name, ..., ps) is called
call_run_qcrbox_command ==
    /\ pc = "idle"
    /\ \E ps \in ClientParameterSeqs : command_parameters' = ps
    /\ pc' = "prepare"
    /\ UNCHANGED <<library_vars, requests, input_file_dataset_ids, service, calculation,
                   output_dataset_id, final_response, run_result>>

\* parameter_dict, input_file_dataset_ids = prepare_qcrbox_parameters(client, command_parameters)
prepare_parameters ==
    /\ pc = "prepare"
    /\ \E responses \in [1..Len(command_parameters) -> {"ok", "error"}] :
        LET prepared == prepare_qcrbox_parameters(command_parameters, responses)
        IN  /\ requests' = requests \o prepared.requests
            /\ IF prepared.raised
               THEN /\ pc' = "raised"
                    /\ run_result' = ClientRaised("TypeError")
                    /\ UNCHANGED input_file_dataset_ids
               ELSE /\ pc' = "invoke"
                    /\ input_file_dataset_ids' = prepared.dataset_ids
                    /\ UNCHANGED run_result
    /\ UNCHANGED <<library_vars, command_parameters, service, calculation, output_dataset_id,
                   final_response>>

\* response = invoke_command.sync(...); an error response raises
invoke_command ==
    /\ pc = "invoke"
    /\ \/ /\ pc' = "poll"
          /\ calculation' = "running"
          /\ UNCHANGED run_result
       \/ /\ pc' = "raised"
          /\ run_result' = ClientRaised("TypeError")
          /\ UNCHANGED calculation
    /\ UNCHANGED <<library_vars, command_parameters, requests, input_file_dataset_ids, service,
                   output_dataset_id, final_response>>

\* the service: the calculation ends, a successful one with or without an
\* output dataset
calculation_ends ==
    /\ calculation = "running"
    /\ \E status \in FinalStatuses, output \in {NoDataset, <<"output", 1>>} :
        /\ calculation' = status
        /\ output_dataset_id' = IF status = "successful" THEN output ELSE NoDataset
    /\ UNCHANGED <<library_vars, command_parameters, pc, requests, input_file_dataset_ids, service,
                   final_response, run_result>>

\* the service: from now on it answers with an error response
service_fails ==
    /\ pc = "poll"
    /\ service = "up"
    /\ service' = "down"
    /\ UNCHANGED <<library_vars, command_parameters, pc, requests, input_file_dataset_ids,
                   calculation, output_dataset_id, final_response, run_result>>

\* one turn of `while final_response is None`
poll_calculation ==
    /\ pc = "poll"
    /\ IF service = "down"
       THEN /\ pc' = "raised"
            /\ run_result' = ClientRaised("TypeError")
            /\ UNCHANGED final_response
       ELSE IF calculation \in PolledFinal
       THEN /\ final_response' = calculation
            /\ pc' = "finish"
            /\ UNCHANGED run_result
       ELSE UNCHANGED <<pc, final_response, run_result>>
    /\ UNCHANGED <<library_vars, command_parameters, requests, input_file_dataset_ids, service,
                   calculation, output_dataset_id>>

\* the function after the loop: the input datasets are deleted, the output
\* of a successful calculation is downloaded and deleted, the result returned
finish_run_qcrbox_command ==
    /\ pc = "finish"
    /\ IF final_response = "successful"
       THEN IF output_dataset_id = NoDataset
            THEN /\ requests' = requests \o DeleteInputs(input_file_dataset_ids)
                 /\ pc' = "raised"
                 /\ run_result' = ClientRaised("ValueError")
            ELSE /\ requests' = requests \o DeleteInputs(input_file_dataset_ids)
                                 \o <<DownloadDataset(output_dataset_id),
                                      DeleteDataset(output_dataset_id)>>
                 /\ \/ /\ pc' = "returned"
                       /\ run_result' = ClientReturned("successful")
                    \/ /\ pc' = "raised"
                       /\ run_result' = ClientRaised("TypeError")
       ELSE /\ requests' = requests \o DeleteInputs(input_file_dataset_ids)
            /\ pc' = "returned"
            /\ run_result' = ClientReturned("failed")
    /\ UNCHANGED <<library_vars, command_parameters, input_file_dataset_ids, service, calculation,
                   output_dataset_id, final_response>>

\* the steps of the call itself
ClientStep ==
    \/ call_run_qcrbox_command
    \/ prepare_parameters
    \/ invoke_command
    \/ poll_calculation
    \/ finish_run_qcrbox_command

ClientNext ==
    \/ call_run_qcrbox_command
    \/ prepare_parameters
    \/ invoke_command
    \/ poll_calculation
    \/ finish_run_qcrbox_command
    \/ calculation_ends
    \/ service_fails

\* the call runs on: the function blocks nowhere but in the service's answers
ClientSpec == Init /\ [][ClientNext]_vars /\ WF_vars(ClientStep)

(***************************************************************************)
(* Properties.                                                             *)
(***************************************************************************)
Checked == result.kind # "none"
Expected == built.spec
IsClass(kind) == Expected.cls \in {"CifEntry" \o kind \o "ExpectedResult", "CifLoopEntry" \o kind \o "ExpectedResult"}
Resolved == resolved.kind = "return"
\* the adapter read the document
Parsed == block # NoBlock

\* the loop specification names only looped items of the document
LoopColumnsExist ==
    /\ IsLoopSpec(Expected)
    /\ Expected.cif_entry_name \in block.loop_keys
    /\ \A k \in 1..Len(Expected.row_lookup) : Expected.row_lookup[k].row_entry_name \in block.loop_keys

\* the rows (numbered from 1) in which every condition's column holds the condition's value
SatisfyingRows ==
    {i \in 1..Len(block.entries[Expected.cif_entry_name].l) :
        \A k \in 1..Len(Expected.row_lookup) :
            block.entries[Expected.row_lookup[k].row_entry_name].l[i]
                = Str(Expected.row_lookup[k].row_entry_value)}

C2_LoopLookupSelectsTheRow ==
    (Checked /\ LoopColumnsExist) =>
        /\ Cardinality(SatisfyingRows) = 1 =>
              resolved = Return(StrV(block.entries[Expected.cif_entry_name].l[CHOOSE i \in SatisfyingRows : TRUE]))
        /\ SatisfyingRows = {} =>
              /\ resolved.kind = "raise"
              /\ resolved.exc = "ValueError"
              /\ Mentions(resolved.msg, "No row found matching conditions")

\* two conditions on different columns select the second row, the first
\* condition alone being satisfied by both rows
C2_Witness ==
    /\ Checked /\ LoopColumnsExist /\ Resolved
    /\ Len(Expected.row_lookup) = 2
    /\ Expected.row_lookup[1].row_entry_name # Expected.row_lookup[2].row_entry_name
    /\ SatisfyingRows = {2}
    /\ Cardinality(MatchingIndexes(block, Expected.row_lookup[1].row_entry_name,
                                   Str(Expected.row_lookup[1].row_entry_value))) = 2

\* C3: with more than one row satisfying all conditions, the accessor raises
\* the ValueError "More than one row found matching conditions".
C3_AmbiguousRowIsValueError ==
    (Checked /\ LoopColumnsExist /\ Cardinality(SatisfyingRows) > 1) =>
        /\ resolved.kind = "raise"
        /\ resolved.exc = "ValueError"
        /\ Mentions(resolved.msg, "More than one row found matching conditions")

\* C4: a within check whose value resolves fails with "not a valid number"
\* when the value does not parse, and otherwise passes exactly when
\* min_value <= parsed <= max_value, a failure saying "outside".
C4_WithinIsInclusiveRange ==
    (Checked /\ IsClass("Within") /\ Resolved) =>
        LET f == ParseFloat(resolved.value)
        IN  /\ result.kind = "verdict"
            /\ ~f.ok => (~result.passed /\ Mentions(result.log, "not a valid number"))
            /\ f.ok =>
                /\ result.passed <=>
                      (Expected.min_value * f.den <= 10 * f.num /\ 10 * f.num <= Expected.max_value * f.den)
                /\ ~result.passed => Mentions(result.log, "outside")

\* a within check passes on a value equal to max_value and above min_value
C4_Witness ==
    /\ Checked /\ IsClass("Within") /\ Resolved
    /\ result.kind = "verdict" /\ result.passed
    /\ LET f == ParseFloat(resolved.value)
       IN  f.ok /\ 10 * f.num = Expected.max_value * f.den /\ Expected.min_value < Expected.max_value

\* C5: every within specification that construction returns has
\* min_value <= max_value.
C5_WithinMinLeMax ==
    (built.kind = "spec" /\ IsClass("Within")) => Expected.min_value <= Expected.max_value

\* C6: a within specification built from expected_value and allowed_deviation
\* has min_value = expected - deviation, max_value = expected + deviation,
\* max_value - min_value = 2 * deviation and min_value <= expected <= max_value.
C6_DeviationBrackets ==
    (built.kind = "spec" /\ IsClass("Within")
        /\ {"expected_value", "allowed_deviation"} \subseteq data.keys) =>
        LET e == Tenths(data.expected_value)
            d == Tenths(data.allowed_deviation)
        IN  /\ Expected.min_value = e - d
            /\ Expected.max_value = e + d
            /\ Expected.max_value - Expected.min_value = 2 * d
            /\ Expected.min_value <= e /\ e <= Expected.max_value

\* C7: within construction succeeds only on exactly one input form: the
\* keys of one complete pair and no key of the other pair.
C7_WithinExactlyOneForm ==
    (data.test_type = "within" /\ built.kind = "spec") =>
        \/ data.keys \cap WithinKeys = {"expected_value", "allowed_deviation"}
        \/ data.keys \cap WithinKeys = {"min_value", "max_value"}

C10_PresentVerdict ==
    (Checked /\ IsClass("Present") /\ Parsed) =>
        LET sentinel == Resolved /\ strip(Str(resolved.value)) \in {<<"?">>, <<".">>}
        IN  /\ result.kind = "verdict"
            /\ result.passed <=> (Resolved /\ (~sentinel \/ Expected.allow_unknown))
            /\ (sentinel /\ ~Expected.allow_unknown) => Mentions(result.log, "undefined")
            /\ ~Resolved => result.log = <<L("[fail] ")>> \o resolved.msg

\* the match specification for the entry and the value of a non-match one
MatchTwin ==
    [Expected EXCEPT !.cls = IF IsLoopSpec(Expected) THEN "CifLoopEntryMatchExpectedResult"
                             ELSE "CifEntryMatchExpectedResult",
                     !.expected_value = Expected.forbidden_value,
                     !.forbidden_value = NoneV]
\* what check_result gives for it on the same document
MatchTwinResult == TEST_FUNCTION_MAP(block, MatchTwin)

C12_ContainSearchesUntrimmedText ==
    (Checked /\ IsClass("Contain") /\ Resolved) =>
        LET actual == Str(resolved.value)
            sub == Expected.expected_value.s
        IN  /\ result.kind = "verdict"
            /\ result.passed <=>
                  \E i \in 1..(Len(actual) + 1) : \E j \in (i - 1)..Len(actual) :
                      [k \in 1..(j - i + 1) |-> actual[i + k - 1]] = sub

\* a contain check passes on a text that starts with whitespace and that
\* the trimmed value does not contain
C12_Witness ==
    /\ Checked /\ IsClass("Contain") /\ Resolved
    /\ result.kind = "verdict" /\ result.passed
    /\ ~Contains(strip(Str(resolved.value)), Expected.expected_value.s)

\* the comparison kinds that need the value
IsValueCheck == \E kind \in {"Match", "NonMatch", "Within", "Contain", "Present"} : IsClass(kind)

\* the names the specification has the accessor look up: the entry, then the row-condition columns
LookedUpNames ==
    <<Expected.cif_entry_name>>
    \o [k \in 1..Len(Expected.row_lookup) |-> Expected.row_lookup[k].row_entry_name]

\* C13: a match, non-match, within, contain or present check that names an
\* entry or a row-condition column the document does not hold gives a failed
\* verdict whose log is the accessor's "not found" message for such a name.
C13_AbsentNameIsFailedVerdict ==
    (Checked /\ IsValueCheck /\ Parsed
        /\ \E k \in 1..Len(LookedUpNames) : LookedUpNames[k] \notin DOMAIN block.entries) =>
        /\ result.kind = "verdict"
        /\ ~result.passed
        /\ Mentions(result.log, "not found")
        /\ \E k \in 1..Len(LookedUpNames) :
              /\ LookedUpNames[k] \notin DOMAIN block.entries
              /\ result.log = <<L("[fail] ")>> \o NotFoundMessage(LookedUpNames[k])

\* the entry is in the loop and a row-condition column is in no part of the
\* document: the check fails naming the column
C13_Witness ==
    /\ Checked /\ IsValueCheck /\ IsLoopSpec(Expected)
    /\ Expected.cif_entry_name \in block.loop_keys
    /\ result.kind = "verdict" /\ ~result.passed
    /\ result.log = <<L("[fail] ")>> \o NotFoundMessage("_missing.column")

\* C14: a loop match, non-match, within, contain or present check whose
\* conditions more than one row satisfies gives a failed verdict with a
\* message; no exception leaves check_result.
C14_AmbiguousRowIsFailedVerdict ==
    (Checked /\ IsValueCheck /\ LoopColumnsExist /\ Cardinality(SatisfyingRows) > 1) =>
        /\ result.kind = "verdict"
        /\ ~result.passed
        /\ result.log # <<>>

\* the word of each comparison kind in the name its test function gives the verdict
KindWords ==
    [Match |-> "match", NonMatch |-> "non_match", Within |-> "within",
     Contain |-> "contain", Missing |-> "missing", Present |-> "present"]

\* C17: every specification built from a dict of result_type cif_value or
\* cif_loop_value has one of the twelve classes; check_result on such a
\* specification never gives the "Unknown test type" verdict, and a verdict
\* carries the name of the test function of the specification's own
\* comparison kind and target kind.
C17_DispatchIsExhaustive ==
    /\ (built.kind = "spec" /\ data.result_type \in {"cif_value", "cif_loop_value"}) =>
          \E kind \in DOMAIN KindWords :
              Expected.cls = (IF data.result_type = "cif_value" THEN "CifEntry" ELSE "CifLoopEntry")
                             \o kind \o "ExpectedResult"
    /\ \A kind \in DOMAIN KindWords :
          (Checked /\ Parsed /\ IsClass(kind)) =>
              /\ ~Mentions(result.log, "Unknown test type")
              /\ result.kind = "verdict" =>
                    result.test_case_name =
                        (IF IsLoopSpec(Expected) THEN "loop_" ELSE "") \o KindWords[kind]
                        \o "_" \o Expected.cif_entry_name

\* a loop present check was dispatched to the loop present function
C17_Witness ==
    /\ Checked /\ IsClass("Present") /\ IsLoopSpec(Expected)
    /\ result.kind = "verdict" /\ result.passed
    /\ result.test_case_name = "loop_present__loop.value"

\* the text of the expected value of a match check denotes a number
ExpectedNumber == ParseFloat(StrV(Str(Expected.expected_value)))

\* C18: a match check whose expected value is an int, a float or the text of
\* a number passes whenever the resolved document text denotes the same
\* number.
C18_MatchIsNumeric ==
    (Checked /\ IsClass("Match") /\ Resolved
        /\ Expected.expected_value.t \in {"int", "float", "str"}
        /\ ExpectedNumber.ok /\ ParseFloat(resolved.value).ok
        /\ ExpectedNumber.num * ParseFloat(resolved.value).den
              = ParseFloat(resolved.value).num * ExpectedNumber.den) =>
        /\ result.kind = "verdict"
        /\ result.passed

\* run_test_case was called
CaseRan == case_result.kind # "none"
\* run_test_case called run_qcrbox_command, which returned command_result
CommandRan == CaseRan /\ "qcrbox_application_name" \in TestCaseAttributes(test_case.module)
\* the text run_test_case hands to check_result
OutputText == ResultCifText(command_result)
LookupErrors == {"ValueMissingError", "ValueError", "IndexError"}

\* C15: an exception of the adapter's constructor (empty or malformed
\* document) leaves check_result, and leaves run_test_case, as that
\* exception and never becomes a verdict; an exception of the accessor that
\* is none of the lookup errors leaves check_result as well.
C15_OtherErrorsPropagate ==
    /\ (Checked /\ ~Parsed) =>
          /\ result.kind = "raised"
          /\ result.exc \in {"AttributeError", "StarError"}
    /\ (Checked /\ Parsed /\ resolved.kind = "raise" /\ resolved.exc \notin LookupErrors) =>
          /\ result.kind = "raised"
          /\ result.exc = resolved.exc
    /\ (CommandRan /\ command_result.status = "successful"
            /\ PyCIFRWAdapter(OutputText).kind = "raise") =>
          /\ case_result.kind = "raised"
          /\ case_result.exc = PyCIFRWAdapter(OutputText).exc

\* a successful command gave a text that is no CIF, and StarError left run_test_case
C15_Witness ==
    /\ CommandRan
    /\ command_result = CommandRunResult("successful", MalformedText)
    /\ case_result.kind = "raised"
    /\ case_result.exc = "StarError"

\* C16: in a test case whose command ran, the result of a status
\* expectation passes exactly when the command's status is the expected
\* status, with or without an output document.
C16_StatusComparesCommandStatus ==
    CommandRan =>
        \A i \in 1..Len(test_case.expected_results) :
            test_case.expected_results[i].cls = "StatusExpectedResult" =>
                /\ case_result.kind = "returned"
                /\ case_result.individual_results[i].passed
                      <=> (command_result.status = test_case.expected_results[i].expected)

\* C19: when the command ran and its status is not "successful",
\* run_test_case returns a result with one individual result for each
\* expected result, in order, each failed with a log saying "Command
\* execution failed" and naming the expected result's type, and all_passed
\* is false.
C19_FailedCommandFailsEveryResult ==
    (CommandRan /\ command_result.status # "successful") =>
        /\ case_result.kind = "returned"
        /\ ~case_result.all_passed
        /\ Len(case_result.individual_results) = Len(test_case.expected_results)
        /\ \A i \in 1..Len(test_case.expected_results) :
              /\ ~case_result.individual_results[i].passed
              /\ case_result.individual_results[i].test_case_name = test_case.name
              /\ Mentions(case_result.individual_results[i].log, "Command execution failed")
              /\ Mentions(case_result.individual_results[i].log, test_case.expected_results[i].cls)

\* a failed command with two expected results of different types
C19_Witness ==
    /\ CommandRan /\ command_result.status = "failed"
    /\ case_result.kind = "returned"
    /\ Len(test_case.expected_results) = 2
    /\ test_case.expected_results[1].cls # test_case.expected_results[2].cls
    /\ Len(case_result.individual_results) = 2

\* C20: a result run_test_case returns holds, in order, one individual
\* result for each expected result, and its all_passed is true exactly when
\* every individual result passed; a result run_test_suite returns holds, in
\* order, the case result of each test case, and its all_passed is true
\* exactly when every case's all_passed is true.
C20_AggregationIsConjunction ==
    /\ case_result.kind = "returned" =>
          /\ Len(case_result.individual_results) = Len(test_case.expected_results)
          /\ command_result.status = "successful" =>
                \A i \in 1..Len(test_case.expected_results) :
                    case_result.individual_results[i]
                        = CheckResult(OutputText, test_case.expected_results[i])
          /\ case_result.all_passed
                <=> \A i \in 1..Len(case_result.individual_results) :
                        case_result.individual_results[i].passed
    /\ suite_result.kind = "returned" =>
          /\ Len(suite_result.test_results) = Len(test_suite.tests)
          /\ \A i \in 1..Len(test_suite.tests) :
                /\ suite_result.test_results[i].test_case_name = test_suite.tests[i].name
                /\ suite_result.test_results[i]
                      = RunTestCase(test_suite.tests[i], command_results[i])
          /\ suite_result.all_passed
                <=> \A i \in 1..Len(suite_result.test_results) :
                        suite_result.test_results[i].all_passed

\* a suite of two cases, the first passing and the second failing, fails
C20_Witness ==
    /\ suite_result.kind = "returned"
    /\ Len(suite_result.test_results) = 2
    /\ suite_result.test_results[1].all_passed
    /\ ~suite_result.test_results[2].all_passed
    /\ ~suite_result.all_passed

(***************************************************************************)
(* The output tests of models.py.                                          *)
(***************************************************************************)
OutputTestBuilt ==
    /\ output_test.kind = "built"
    /\ output_test.obj.cls \in {"EntryOutputTest", "LoopEntryOutputTest"}

\* the object holds an exact accepted value and no bound
HoldsExact ==
    /\ output_test.obj.accepted_value # NoneV
    /\ output_test.obj.accepted_min_value = NoneV
    /\ output_test.obj.accepted_max_value = NoneV

\* the object holds both bounds, min <= max, and no exact value
HoldsRange ==
    /\ output_test.obj.accepted_value = NoneV
    /\ output_test.obj.accepted_min_value # NoneV
    /\ output_test.obj.accepted_max_value # NoneV
    /\ output_test.obj.accepted_min_value.n <= output_test.obj.accepted_max_value.n

\* a value keyword of the constructor call that is given and not None
Given(keyword) == keyword \in test_data.keys /\ test_data[keyword] # NoneV

ModelConstructed(cls) == constructed.kind = "built" /\ constructed.obj.cls = cls

\* C22: every constructed TestCase has at least one expected result and
\* pairwise distinct parameter names, and every constructed TestSuite has
\* at least one test and pairwise distinct test names.
C22_NonEmptyAndDistinctNames ==
    /\ ModelConstructed("TestCase") =>
        /\ Len(constructed.obj.expected_results) >= 1
        /\ \A i, j \in 1..Len(constructed.obj.qcrbox_command_parameters) :
              i # j => constructed.obj.qcrbox_command_parameters[i].name
                       # constructed.obj.qcrbox_command_parameters[j].name
    /\ ModelConstructed("TestSuite") =>
        /\ Len(constructed.obj.tests) >= 1
        /\ \A i, j \in 1..Len(constructed.obj.tests) :
              i # j => constructed.obj.tests[i].name # constructed.obj.tests[j].name

(***************************************************************************)
(* The names of a constructed specification.                               *)
(***************************************************************************)
ScalarClasses == {"CifEntry" \o kind \o "ExpectedResult" : kind \in DOMAIN KindWords}
LoopClasses == {"CifLoopEntry" \o kind \o "ExpectedResult" : kind \in DOMAIN KindWords}

\* validate_python was called on `data` and nothing was called since
JustConstructed == built.kind # "none" /\ result.kind = "none"

\* the names of the dict are not all given and non-empty
Unnamed ==
    \/ "cif_entry_name" \notin data.keys
    \/ data.cif_entry_name = ""
    \/ /\ data.result_type = "cif_loop_value"
       /\ \/ "row_lookup" \notin data.keys
          \/ data.row_lookup = <<>>
          \/ \E i \in 1..Len(data.row_lookup) : data.row_lookup[i].row_entry_name = ""

LogNonEmpty(log) == \E i \in 1..Len(log) : log[i].lit # "" \/ log[i].txt # <<>>

FailedVerdictsExplained(individual_results) ==
    \A i \in 1..Len(individual_results) :
        ~individual_results[i].passed => LogNonEmpty(individual_results[i].log)

\* C24: every verdict with passed = false that check_result returns, and
\* every such verdict in a result of run_test_case or run_test_suite, has a
\* non-empty log.
C24_FailedVerdictHasExplanation ==
    /\ (result.kind = "verdict" /\ ~result.passed) => LogNonEmpty(result.log)
    /\ case_result.kind = "returned" => FailedVerdictsExplained(case_result.individual_results)
    /\ suite_result.kind = "returned" =>
            \A k \in 1..Len(suite_result.test_results) :
                FailedVerdictsExplained(suite_result.test_results[k].individual_results)

\* a within check failed on a text that is not a number
C24_Witness ==
    /\ Checked /\ IsClass("Within")
    /\ result.kind = "verdict" /\ ~result.passed
    /\ Mentions(result.log, "not a valid number")
    /\ LogNonEmpty(result.log)

(***************************************************************************)
(* Repeated evaluation.                                                    *)
(***************************************************************************)
\* the later call k evaluated the specification the first call evaluated
SameAsFirst(k) == evaluations[k].expected_result = Expected

SingleFilter(b, row_lookups) ==
    {idx \in 0..(Len(b.entries[row_lookups[1][1]].l) - 1) :
        \A i \in 1..Len(row_lookups) : b.entries[row_lookups[i][1]].l[idx + 1] = row_lookups[i][2]}

\* C26: with all named columns in the loop, the intersection of the
\* per-condition index sets is the set of rows a single filter over all
\* conditions selects, and the accessor's outcome is the one that set
\* decides: the cell of the row for one row, the no-row ValueError for none,
\* the ambiguity outcome for more than one.
C26_IntersectionIsSingleFilter ==
    (Checked /\ LoopColumnsExist) =>
        LET row_lookups == RowLookupTuples(Expected)
            selected == SingleFilter(block, row_lookups)
        IN  /\ Overlap(block, row_lookups) = selected
            /\ Cardinality(selected) = 1 <=> resolved.kind = "return"
            /\ Cardinality(selected) = 1 =>
                    resolved = Return(StrV(block.entries[Expected.cif_entry_name].l[
                                                (CHOOSE idx \in selected : TRUE) + 1]))
            /\ selected = {} <=>
                    (resolved.kind = "raise"
                        /\ Mentions(resolved.msg, "No row found matching conditions"))
            /\ Cardinality(selected) > 1 <=>
                    (resolved.kind = "raise"
                        /\ ~Mentions(resolved.msg, "No row found matching conditions"))

\* one condition given twice selects the one row it selects alone, and two
\* rows hold the entry
C26_Witness ==
    /\ Checked /\ LoopColumnsExist /\ Resolved
    /\ Len(Expected.row_lookup) = 2
    /\ Expected.row_lookup[1] = Expected.row_lookup[2]
    /\ Len(block.entries[Expected.cif_entry_name].l) = 2
    /\ Cardinality(SingleFilter(block, RowLookupTuples(Expected))) = 1

(***************************************************************************)
(* The tabular missing check and the rows.                                 *)
(***************************************************************************)
LoopMissingChecked ==
    Checked /\ Parsed /\ Expected.cls = "CifLoopEntryMissingExpectedResult"

EntryColumnExists == Expected.cif_entry_name \in DOMAIN block.entries

DatasetParams == SelectSeq(command_parameters, LAMBDA param : param.cls = "QCrBoxFileParameter")
\* the uploads the call has sent, in order
Uploads == SelectSeq(requests, LAMBDA request : request.op = "create_dataset")
\* the file name the parameter asks for
WantedFileName(param) ==
    IF param.upload_filename # NoFilename THEN param.upload_filename ELSE param.name \o ".cif"

\* C28: the content of a file parameter is uploaded under its
\* upload_filename, and the data-file id looked up under that name, when it
\* has one; under "<parameter name>.cif" only when it has none.
C28_UploadUsesUploadFilename ==
    \A i \in 1..Len(Uploads) :
        /\ Uploads[i].file_name = WantedFileName(DatasetParams[i])
        /\ Uploads[i].id # NoDataset => Uploads[i].lookup = WantedFileName(DatasetParams[i])

CallEnded == pc \in {"returned", "raised"}

\* C29: once the calculation is in a final status (successful, failed or
\* warning) and the service answers the polls, the call ends, and a result
\* it returns carries the calculation's status.
C29_PollingTerminates ==
    /\ (pc = "poll" /\ service = "up" /\ calculation \in FinalStatuses) ~> CallEnded
    /\ [](pc = "returned" => run_result.status = calculation)

Deletions(dataset_id) ==
    Cardinality({k \in 1..Len(requests) : requests[k] = DeleteDataset(dataset_id)})

\* C30: when the call has ended, by a return or by an exception, every
\* dataset an upload created was deleted exactly once; and the output
\* dataset is deleted only after it was downloaded.
C30_UploadsAreDeletedOnce ==
    /\ CallEnded =>
            \A k \in 1..Len(requests) :
                (requests[k].op = "create_dataset" /\ requests[k].id # NoDataset) =>
                    Deletions(requests[k].id) = 1
    /\ \A k \in 1..Len(requests) :
            (requests[k].op = "delete_dataset_by_id" /\ requests[k].id[1] = "output") =>
                \E j \in 1..(k - 1) : requests[j] = DownloadDataset(requests[k].id)

====
